---- MODULE Spec2Model ----
(***************************************************************************)
(* Model of matterbridge-bthome: the two decoders, the scanner and the     *)
(* construction of the platform:                                           *)
(*   decodeBTHome                  (src/src/BTHomeDecoder.ts)              *)
(*   BTHOME_SPEC                   (src/src/BTHomeSpec.ts)                 *)
(*   decodeShellyManufacturerData  (BTHomeShellyMdDecoder.ts)              *)
(*   BTHome                        (src/src/BTHome.ts)                     *)
(*   Platform                      (src/src/module.ts)                     *)
(*                                                                         *)
(* A Buffer is a sequence of bytes 0..255.  The code indexes buffers from  *)
(* 0, sequences are indexed from 1: At(buf, off) is buf[off] of the code.  *)
(* A JS object is a function whose DOMAIN is the set of its keys.          *)
(* A JS number produced by toFixed is kept as a decimal Num(m, d) = m/10^d.*)
(***************************************************************************)
EXTENDS Integers, Sequences, FiniteSets, Bags, TLC

\* ------------------------------------------------------------------ bytes
Byte == 0..255

RECURSIVE Pow(_, _)
Pow(b, n) == IF n = 0 THEN 1 ELSE b * Pow(b, n - 1)

At(buf, off) == buf[off + 1]

\* buf.slice(start, end): both ends are clamped to the buffer
Clamp(buf, i) == IF i < 0 THEN 0 ELSE IF i > Len(buf) THEN Len(buf) ELSE i
Slice(buf, start, end) ==
  LET s == Clamp(buf, start)
      e == Clamp(buf, end)
  IN  IF e <= s THEN << >> ELSE SubSeq(buf, s + 1, e)

\* Node's readUInt8 / readUIntLE / readIntLE / readUInt16LE / readUInt32LE
\* raise a RangeError unless offset + byteLength <= buf.length
CanRead(buf, off, n) == off >= 0 /\ off + n <= Len(buf)

RECURSIVE ReadUIntLE(_, _, _)
ReadUIntLE(buf, off, n) ==
  IF n = 0 THEN 0 ELSE At(buf, off) + 256 * ReadUIntLE(buf, off + 1, n - 1)

\* two's complement: the most significant byte carries the sign
SignedByte(b) == IF b >= 128 THEN b - 256 ELSE b

ReadIntLE_Unsigned(buf, off, n) == ReadUIntLE(buf, off, n)
ReadIntLE(buf, off, n) ==
  ReadUIntLE(buf, off, n - 1) + Pow(256, n - 1) * SignedByte(At(buf, off + n - 1))

\* ------------------------------------------------------------- hex, text
HexDigits == <<"0", "1", "2", "3", "4", "5", "6", "7",
               "8", "9", "a", "b", "c", "d", "e", "f">>

\* Number.prototype.toString(16) of a byte: no leading zero
HexOf(b) == IF b < 16 THEN HexDigits[b + 1]
            ELSE HexDigits[(b \div 16) + 1] \o HexDigits[(b % 16) + 1]

\* one byte of Buffer.toString('hex'): always two digits
Hex2(b) == HexDigits[(b \div 16) + 1] \o HexDigits[(b % 16) + 1]

RECURSIVE ToHex(_)
ToHex(bytes) == IF bytes = << >> THEN "" ELSE Hex2(Head(bytes)) \o ToHex(Tail(bytes))

\* the printable ASCII characters 0x20..0x7e, in code order (the double quote,
\* the backslash and the grave accent are written by their code points)
Ascii == <<" ", "!", "<U+0022>", "#", "$", "%", "&", "'", "(", ")", "*", "+", ",", "-", ".", "/",
           "0", "1", "2", "3", "4", "5", "6", "7", "8", "9", ":", ";", "<", "=", ">", "?",
           "@", "A", "B", "C", "D", "E", "F", "G", "H", "I", "J", "K", "L", "M", "N", "O",
           "P", "Q", "R", "S", "T", "U", "V", "W", "X", "Y", "Z", "[", "<U+005C>", "]", "^", "_",
           "<U+0060>", "a", "b", "c", "d", "e", "f", "g", "h", "i", "j", "k", "l", "m", "n", "o",
           "p", "q", "r", "s", "t", "u", "v", "w", "x", "y", "z", "{", "|", "}", "~">>

\* One byte of Buffer.toString('utf8'): an ASCII byte is its character, a
\* byte that starts no valid UTF-8 sequence is replaced by U+FFFD.  (Lead
\* bytes 0xc2..0xf4 followed by continuation bytes are not modelled; the
\* inputs of the model contain none.)
Utf8Char(b) == IF b >= 32 /\ b <= 126 THEN Ascii[b - 31]
               ELSE IF b < 128 THEN "<U+00" \o Hex2(b) \o ">"
               ELSE "<U+FFFD>"

RECURSIVE Utf8(_)
Utf8(bytes) == IF bytes = << >> THEN "" ELSE Utf8Char(Head(bytes)) \o Utf8(Tail(bytes))

\* ------------------------------------------------------------ JS values
\* readings hold boolean | number | string | object; every value of the
\* model has the same shape so that any two of them can be compared.
Num(m, d) == [t |-> "number", m |-> m, d |-> d, s |-> ""]
Str(s) == [t |-> "string", m |-> 0, d |-> 0, s |-> s]
\* the ISO-8601 string of the Date with the given epoch milliseconds
IsoDate(ms) == [t |-> "isodate", m |-> ms, d |-> 0, s |-> ""]
\* the dimmer object { event, steps }
Dimmer(event, steps) == [t |-> "object", m |-> steps, d |-> 0, s |-> event]

\* obj[k] = v
Put(obj, k, v) == [x \in (DOMAIN obj) \cup {k} |-> IF x = k THEN v ELSE obj[x]]
\* delete obj[k]
Delete(obj, k) == [x \in (DOMAIN obj) \ {k} |-> obj[x]]
EmptyObject == [x \in {} |-> 0]

\* --------------------------------------------------------- BTHOME_SPEC
\* bytes: null of a length-prefixed entry
null == 0

\* an entry without parser: { name, bytes, signed, factor }, factor = fn/fd
G(name, bytes, signed, fn, fd) ==
  [name |-> name, bytes |-> bytes, signed |-> signed, fn |-> fn, fd |-> fd, parser |-> "none"]
\* an entry with a parser (signed: false, factor: 1 where the source gives them)
P(name, bytes, parser) ==
  [name |-> name, bytes |-> bytes, signed |-> FALSE, fn |-> 1, fd |-> 1, parser |-> parser]

\* a length-prefixed entry: { name, parser, bytes: null }
Prefixed_WithoutParser(name, parser) ==
  [name |-> name, bytes |-> null, signed |-> FALSE, fn |-> 1, fd |-> 1, parser |-> "none"]
Prefixed(name, parser) ==
  [name |-> name, bytes |-> null, signed |-> FALSE, fn |-> 1, fd |-> 1, parser |-> parser]

BTHOME_SPEC ==
     (0 :> G("packetId", 1, FALSE, 1, 1))
  @@ (1 :> G("battery", 1, FALSE, 1, 1))
  @@ (2 :> G("temperature", 2, TRUE, 1, 100))
  @@ (3 :> G("humidity", 2, FALSE, 1, 100))
  @@ (4 :> G("pressure", 3, FALSE, 1, 100))
  @@ (5 :> G("illuminance", 3, FALSE, 1, 100))
  @@ (6 :> G("massKilograms", 2, FALSE, 1, 100))
  @@ (7 :> G("massPounds", 2, FALSE, 1, 100))
  @@ (8 :> G("dewPoint", 2, TRUE, 1, 100))
  @@ (9 :> G("countSmall", 1, FALSE, 1, 1))
  @@ (10 :> G("energy_kWh", 3, FALSE, 1, 1000))
  @@ (11 :> G("power_W", 3, FALSE, 1, 100))
  @@ (12 :> G("voltage_V", 2, FALSE, 1, 1000))
  @@ (13 :> G("pm2_5_ugm3", 2, FALSE, 1, 1))
  @@ (14 :> G("pm10_ugm3", 2, FALSE, 1, 1))
  @@ (19 :> G("tvoc_ugm3", 2, FALSE, 1, 1))
  @@ (20 :> G("moisture", 2, FALSE, 1, 100))
  @@ (46 :> G("humidity", 1, FALSE, 1, 1))
  @@ (47 :> G("moisture", 1, FALSE, 1, 1))
  @@ (64 :> G("distance_mm", 2, FALSE, 1, 1))
  @@ (65 :> G("distance_m", 2, FALSE, 1, 10))
  @@ (66 :> G("duration_s", 3, FALSE, 1, 1000))
  @@ (67 :> G("current_A", 2, FALSE, 1, 1000))
  @@ (68 :> G("speed_ms", 2, FALSE, 1, 100))
  @@ (69 :> G("temperature", 2, TRUE, 1, 10))
  @@ (70 :> G("uvIndex", 1, FALSE, 1, 10))
  @@ (71 :> G("volume_L", 2, FALSE, 1, 10))
  @@ (72 :> G("volume_mL", 2, FALSE, 1, 1))
  @@ (73 :> G("flowRate_m3ph", 2, FALSE, 1, 1000))
  @@ (74 :> G("voltage_alt_V", 2, FALSE, 1, 10))
  @@ (75 :> G("gas_m3", 3, FALSE, 1, 1000))
  @@ (76 :> G("gas_alt_m3", 4, FALSE, 1, 1000))
  @@ (77 :> G("energy_alt_kWh", 4, FALSE, 1, 1000))
  @@ (78 :> G("volume_alt_L", 4, FALSE, 1, 1000))
  @@ (79 :> G("water_L", 4, FALSE, 1, 1000))
  @@ (82 :> G("gyroscope_dps", 2, FALSE, 1, 1000))
  @@ (83 :> Prefixed("text", "text"))
  @@ (84 :> Prefixed("raw", "raw"))
  @@ (85 :> G("volumeStorage_L", 4, FALSE, 1, 1000))
  @@ (87 :> G("temperature", 1, TRUE, 1, 1))
  @@ (88 :> G("temperature", 1, TRUE, 35, 100))
  @@ (89 :> G("count8", 1, TRUE, 1, 1))
  @@ (90 :> G("count16", 2, TRUE, 1, 1))
  @@ (91 :> G("count32", 4, TRUE, 1, 1))
  @@ (92 :> G("power_alt_W", 4, TRUE, 1, 100))
  @@ (93 :> G("current_alt_A", 2, TRUE, 1, 1000))
  @@ (94 :> G("direction_deg", 2, FALSE, 1, 100))
  @@ (95 :> G("precipitation_mm", 2, FALSE, 1, 1))
  @@ (15 :> G("genericBoolean", 1, FALSE, 1, 1))
  @@ (16 :> G("powerState", 1, FALSE, 1, 1))
  @@ (17 :> G("openingState", 1, FALSE, 1, 1))
  @@ (21 :> G("batteryState", 1, FALSE, 1, 1))
  @@ (22 :> G("batteryChargingState", 1, FALSE, 1, 1))
  @@ (23 :> G("carbonMonoxideState", 1, FALSE, 1, 1))
  @@ (24 :> G("coldState", 1, FALSE, 1, 1))
  @@ (25 :> G("connectivityState", 1, FALSE, 1, 1))
  @@ (26 :> G("doorState", 1, FALSE, 1, 1))
  @@ (27 :> G("garageDoorState", 1, FALSE, 1, 1))
  @@ (28 :> G("gasState", 1, FALSE, 1, 1))
  @@ (29 :> G("heatState", 1, FALSE, 1, 1))
  @@ (30 :> G("lightState", 1, FALSE, 1, 1))
  @@ (31 :> G("lockState", 1, FALSE, 1, 1))
  @@ (32 :> G("moistureState", 1, FALSE, 1, 1))
  @@ (33 :> G("motionState", 1, FALSE, 1, 1))
  @@ (34 :> G("movingState", 1, FALSE, 1, 1))
  @@ (35 :> G("occupancyState", 1, FALSE, 1, 1))
  @@ (36 :> G("plugState", 1, FALSE, 1, 1))
  @@ (37 :> G("presenceState", 1, FALSE, 1, 1))
  @@ (38 :> G("problemState", 1, FALSE, 1, 1))
  @@ (39 :> G("runningState", 1, FALSE, 1, 1))
  @@ (40 :> G("safetyState", 1, FALSE, 1, 1))
  @@ (41 :> G("smokeState", 1, FALSE, 1, 1))
  @@ (42 :> G("soundState", 1, FALSE, 1, 1))
  @@ (43 :> G("tamperState", 1, FALSE, 1, 1))
  @@ (44 :> G("vibrationState", 1, FALSE, 1, 1))
  @@ (45 :> G("windowState", 1, FALSE, 1, 1))
  @@ (58 :> P("button", 1, "button"))
  @@ (60 :> P("dimmerEvent", 2, "dimmerEvent"))
  @@ (63 :> G("rotation_deg", 2, TRUE, 1, 10))
  @@ (80 :> P("timestamp", 4, "timestamp"))
  @@ (240 :> G("deviceTypeId", 2, FALSE, 1, 1))
  @@ (241 :> P("firmwareVersion", 4, "firmwareVersion"))
  @@ (242 :> P("firmwareVersionShort", 3, "firmwareVersionShort"))

\* ------------------------------------------------------ custom parsers
\* A parser returns Ok(value), or Raised when one of its buffer reads
\* raises a RangeError.
Ok(v) == [ok |-> TRUE, value |-> v]
Raised == [ok |-> FALSE, value |-> Str("")]

\* BTHOME_SPEC[0x53].parser: buf[off] is undefined past the end of the
\* buffer, the end of the slice is then NaN and the slice is empty
ParseText_WithLengthByte(buf, off) ==
  IF off >= Len(buf) THEN Ok(Str(""))
  ELSE Ok(Str(Utf8(Slice(buf, off, off + 1 + At(buf, off)))))
ParseText(buf, off) ==
  IF off >= Len(buf) THEN Ok(Str(""))
  ELSE Ok(Str(Utf8(Slice(buf, off + 1, off + 1 + At(buf, off)))))

\* BTHOME_SPEC[0x54].parser
ParseRaw(buf, off) ==
  IF off >= Len(buf) THEN Ok(Str(""))
  ELSE Ok(Str(ToHex(Slice(buf, off + 1, off + 1 + At(buf, off)))))

EVENT_MAP_Without254 ==
     (0 :> "none") @@ (1 :> "single_press") @@ (2 :> "double_press")
  @@ (3 :> "triple_press") @@ (4 :> "long_press") @@ (5 :> "long_double_press")
  @@ (6 :> "long_triple_press") @@ (128 :> "hold_press")
EVENT_MAP ==
     (0 :> "none") @@ (1 :> "single_press") @@ (2 :> "double_press")
  @@ (3 :> "triple_press") @@ (4 :> "long_press") @@ (5 :> "long_double_press")
  @@ (6 :> "long_triple_press") @@ (128 :> "hold_press") @@ (254 :> "hold_press")

\* BTHOME_SPEC[0x3a].parser
ParseButton(buf, off) ==
  IF ~CanRead(buf, off, 1) THEN Raised
  ELSE LET code == At(buf, off)
       IN  Ok(Str(IF code \in DOMAIN EVENT_MAP THEN EVENT_MAP[code] ELSE "unknown"))

DIMMER_MAP == (0 :> "none") @@ (1 :> "rotateLeft") @@ (2 :> "rotateRight")

\* BTHOME_SPEC[0x3c].parser
ParseDimmer(buf, off) ==
  IF ~CanRead(buf, off, 1) \/ ~CanRead(buf, off + 1, 1) THEN Raised
  ELSE LET evt == At(buf, off)
           steps == At(buf, off + 1)
       IN  Ok(Dimmer(IF evt \in DOMAIN DIMMER_MAP THEN DIMMER_MAP[evt]
                     ELSE "evt0x" \o HexOf(evt), steps))

\* BTHOME_SPEC[0x50].parser: the ISO string of the date readUInt32LE * 1000 ms
\* (kept as the number of seconds)
ParseTimestamp(buf, off) ==
  IF ~CanRead(buf, off, 4) THEN Raised
  ELSE Ok(IsoDate(ReadUIntLE(buf, off, 4)))

\* an element of a destructured slice, as a template literal prints it
Component(sl, i) == IF i <= Len(sl) THEN ToString(sl[i]) ELSE "undefined"

\* BTHOME_SPEC[0xf1].parser: const [rc, patch, minor, major] = slice
ParseFirmwareVersion_MajorFirst(buf, off) ==
  LET sl == Slice(buf, off, off + 4)
      major == Component(sl, 1)
      minor == Component(sl, 2)
      patch == Component(sl, 3)
      rc == Component(sl, 4)
  IN  Ok(Str(major \o "." \o minor \o "." \o patch \o "." \o rc))
ParseFirmwareVersion(buf, off) ==
  LET sl == Slice(buf, off, off + 4)
      rc == Component(sl, 1)
      patch == Component(sl, 2)
      minor == Component(sl, 3)
      major == Component(sl, 4)
  IN  Ok(Str(major \o "." \o minor \o "." \o patch \o "." \o rc))

\* BTHOME_SPEC[0xf2].parser: const [minor, patch, major] = slice
ParseFirmwareVersionShort(buf, off) ==
  LET sl == Slice(buf, off, off + 3)
      minor == Component(sl, 1)
      patch == Component(sl, 2)
      major == Component(sl, 3)
  IN  Ok(Str(major \o "." \o minor \o "." \o patch))

\* spec.parser(buf, offset)
RunParser(parser, buf, off) ==
  CASE parser = "text" -> ParseText(buf, off)
    [] parser = "raw" -> ParseRaw(buf, off)
    [] parser = "button" -> ParseButton(buf, off)
    [] parser = "dimmerEvent" -> ParseDimmer(buf, off)
    [] parser = "timestamp" -> ParseTimestamp(buf, off)
    [] parser = "firmwareVersion" -> ParseFirmwareVersion(buf, off)
    [] parser = "firmwareVersionShort" -> ParseFirmwareVersionShort(buf, off)

\* ------------------------------------------------- generic numeric path
\* toFixed accepts 0..100 fraction digits; the table needs at most 3
MaxFractionDigits == 6

\* Math.log10(1 / factor) as toFixed truncates it: the largest k with
\* 10^k <= 1 / factor.  log10 is exact on powers of ten.
FractionDigits(fn, fd) ==
  CHOOSE k \in 0..MaxFractionDigits : Pow(10, k) * fn <= fd /\ Pow(10, k + 1) * fn > fd

RECURSIVE Gcd(_, _)
Gcd(a, b) == IF b = 0 THEN a ELSE Gcd(b, a % b)

Abs(x) == IF x < 0 THEN -x ELSE x

\* n / d rounded to the nearest integer, ties away from zero (toFixed)
RoundDiv(n, d) ==
  LET q == (2 * Abs(n) + d) \div (2 * d)
  IN  IF n < 0 THEN -q ELSE q

\* parseFloat((raw * factor).toFixed(digits)) as the decimal m / 10^digits.
\* The fraction factor * 10^digits is reduced before it is applied, which
\* keeps the products of the model within 32 bits.  The product is exact
\* here; the double product of the code differs from it in one case of the
\* table, raw = 90 or -90 with factor 0.35 (31.499999999999996, printed 31).
ToFixed(raw, fn, fd, digits) ==
  LET num == fn * Pow(10, digits)
      g == Gcd(num, fd)
  IN  Num(RoundDiv(raw * (num \div g), fd \div g), digits)

\* ---------------------------------------------------------- decodeBTHome
\* the entry pushed to unknown: `0x${id.toString(16)} -> 0x${hex of the rest}`
UnknownEntry_WithoutId(buf, id, offset) ==
  "0x" \o HexOf(id) \o " -> 0x" \o ToHex(Slice(buf, offset, Len(buf)))
UnknownEntry(buf, id, offset) ==
  "0x" \o HexOf(id) \o " -> 0x" \o ToHex(Slice(buf, offset - 1, Len(buf)))

\* ids.filter((existingId) => existingId === id).length
Count(ids, id) == Cardinality({i \in DOMAIN ids : ids[i] = id})

\* lines 102-114: the key under which the value is stored
Store_WithoutRename(readings, spec, count, value) ==
  LET name == IF count > 1 THEN spec.name \o ":" \o ToString(count) ELSE spec.name
  IN  Put(readings, name, value)
Store(readings, spec, count, value) ==
  LET name == IF count > 1 THEN spec.name \o ":" \o ToString(count) ELSE spec.name
      renamed == IF count > 1 /\ spec.name \in DOMAIN readings
                 THEN Delete(Put(readings, spec.name \o ":1", readings[spec.name]), spec.name)
                 ELSE readings
  IN  Put(renamed, name, value)

\* lines 75-100: the value of a known field and the offset after it;
\* error is "" or the error raised
DecodeField_SkipsLengthOnly(buf, spec, offset) ==
  IF spec.parser # "none"
  THEN LET r == RunParser(spec.parser, buf, offset)
       IN  IF ~r.ok THEN [error |-> "RangeError", value |-> r.value, offset |-> offset]
           ELSE IF spec.bytes # null
           THEN [error |-> "", value |-> r.value, offset |-> offset + spec.bytes]
           ELSE IF ~CanRead(buf, offset, 1)
           THEN [error |-> "RangeError", value |-> r.value, offset |-> offset]
           ELSE [error |-> "", value |-> r.value, offset |-> offset + At(buf, offset)]
  ELSE IF spec.bytes = null
  THEN [error |-> "missing bytes", value |-> Str(""), offset |-> offset]
  ELSE IF ~CanRead(buf, offset, spec.bytes)
  THEN [error |-> "RangeError", value |-> Str(""), offset |-> offset]
  ELSE LET raw == IF spec.signed THEN ReadIntLE(buf, offset, spec.bytes)
                  ELSE ReadUIntLE(buf, offset, spec.bytes)
       IN  [error |-> "",
            value |-> ToFixed(raw, spec.fn, spec.fd, FractionDigits(spec.fn, spec.fd)),
            offset |-> offset + spec.bytes]
DecodeField(buf, spec, offset) ==
  IF spec.parser # "none"
  THEN LET r == RunParser(spec.parser, buf, offset)
       IN  IF ~r.ok THEN [error |-> "RangeError", value |-> r.value, offset |-> offset]
           ELSE IF spec.bytes # null
           THEN [error |-> "", value |-> r.value, offset |-> offset + spec.bytes]
           ELSE IF ~CanRead(buf, offset, 1)
           THEN [error |-> "RangeError", value |-> r.value, offset |-> offset]
           ELSE [error |-> "", value |-> r.value, offset |-> offset + 1 + At(buf, offset)]
  ELSE IF spec.bytes = null
  THEN [error |-> "missing bytes", value |-> Str(""), offset |-> offset]
  ELSE IF ~CanRead(buf, offset, spec.bytes)
  THEN [error |-> "RangeError", value |-> Str(""), offset |-> offset]
  ELSE LET raw == IF spec.signed THEN ReadIntLE(buf, offset, spec.bytes)
                  ELSE ReadUIntLE(buf, offset, spec.bytes)
       IN  [error |-> "",
            value |-> ToFixed(raw, spec.fn, spec.fd, FractionDigits(spec.fn, spec.fd)),
            offset |-> offset + spec.bytes]

\* the locals of a call after lines 52-60; pc is "loop" while the while
\* loop runs, "break" after the break, "threw" after a raised error
Entry_TriggerBit1(buf) ==
  LET info == At(buf, 0)
  IN  [pc |-> "loop",
       version |-> (info \div 32) % 8,
       encrypted |-> (info % 2 = 1),
       trigger |-> ((info \div 2) % 2 = 1),
       readings |-> EmptyObject, unknown |-> << >>,
       offset |-> 1, ids |-> << >>, error |-> ""]
Entry(buf) ==
  LET info == At(buf, 0)
  IN  [pc |-> "loop",
       version |-> (info \div 32) % 8,
       encrypted |-> (info % 2 = 1),
       trigger |-> ((info \div 4) % 2 = 1),
       readings |-> EmptyObject, unknown |-> << >>,
       offset |-> 1, ids |-> << >>, error |-> ""]

\* one iteration of the while loop, lines 63-114
LoopBody_WithoutBreak(buf, st) ==
  LET id == At(buf, st.offset)
      offset == st.offset + 1
      ids == Append(st.ids, id)
  IN  IF id \notin DOMAIN BTHOME_SPEC
      THEN [st EXCEPT !.offset = offset, !.ids = ids,
                      !.unknown = Append(@, UnknownEntry(buf, id, offset))]
      ELSE LET spec == BTHOME_SPEC[id]
               f == DecodeField(buf, spec, offset)
           IN  IF f.error # ""
               THEN [st EXCEPT !.offset = offset, !.ids = ids, !.pc = "threw", !.error = f.error]
               ELSE [st EXCEPT !.offset = f.offset, !.ids = ids,
                               !.readings = Store(@, spec, Count(ids, id), f.value)]
LoopBody(buf, st) ==
  LET id == At(buf, st.offset)
      offset == st.offset + 1
      ids == Append(st.ids, id)
  IN  IF id \notin DOMAIN BTHOME_SPEC
      THEN [st EXCEPT !.offset = offset, !.ids = ids, !.pc = "break",
                      !.unknown = Append(@, UnknownEntry(buf, id, offset))]
      ELSE LET spec == BTHOME_SPEC[id]
               f == DecodeField(buf, spec, offset)
           IN  IF f.error # ""
               THEN [st EXCEPT !.offset = offset, !.ids = ids, !.pc = "threw", !.error = f.error]
               ELSE [st EXCEPT !.offset = f.offset, !.ids = ids,
                               !.readings = Store(@, spec, Count(ids, id), f.value)]

\* while (offset < buf.length)
Looping(buf, st) == st.pc = "loop" /\ st.offset < Len(buf)

RECURSIVE RunLoop(_, _)
RunLoop(buf, st) == IF Looping(buf, st) THEN RunLoop(buf, LoopBody(buf, st)) ELSE st

\* what a call gives back: the returned object, or the error it raised
Outcome(st) ==
  IF st.pc = "threw" THEN [threw |-> TRUE, error |-> st.error]
  ELSE [threw |-> FALSE, version |-> st.version, encrypted |-> st.encrypted,
        trigger |-> st.trigger, readings |-> st.readings, unknown |-> st.unknown]

NotCalled ==
  [pc |-> "idle", version |-> 0, encrypted |-> FALSE, trigger |-> FALSE,
   readings |-> EmptyObject, unknown |-> << >>, offset |-> 0, ids |-> << >>, error |-> ""]

\* the whole call
decodeBTHome(buf) ==
  IF ~CanRead(buf, 0, 1) THEN [threw |-> TRUE, error |-> "RangeError"]
  ELSE Outcome(RunLoop(buf, Entry(buf)))

\* ------------------------------------------ decodeShellyManufacturerData
SHELLY_MODEL_LONG_NAMES ==
     (1 :> "Shelly BLU Button1") @@ (2 :> "Shelly BLU DoorWindow")
  @@ (3 :> "Shelly BLU HT") @@ (5 :> "Shelly BLU Motion")
  @@ (6 :> "Shelly BLU Wall Switch 4") @@ (7 :> "Shelly BLU RC Button 4")
  @@ (8 :> "Shelly BLU TRV")

SHELLY_MODEL_SHORT_NAMES ==
     (1 :> "SBBT-002C") @@ (2 :> "SBDW-002C") @@ (3 :> "SBHT-003C")
  @@ (5 :> "SBMO-003Z") @@ (6 :> "SBBT-004CEU") @@ (7 :> "SBBT-004CUS")
  @@ (8 :> "SBTR-001AEU")

\* obj[k] = table[id], which is undefined (the key reads as absent) when the
\* table has no entry for id
PutLookup(obj, k, table, id) ==
  IF id \in DOMAIN table THEN Put(obj, k, table[id]) ELSE Delete(obj, k)

\* the company id of Allterco, 0x0ba9
ALLTERCO_Swapped == 169 * 256 + 11
ALLTERCO == 2985

\* An input is a Buffer, [kind |-> "buffer", data |-> bytes], or a string,
\* [kind |-> "string", data |-> characters].
BufferInput(bytes) == [kind |-> "buffer", data |-> bytes]
StringInput(chars) == [kind |-> "string", data |-> chars]

\* the characters the class \s matches, as far as the model writes them
Whitespace == {" ", "\t", "\n"}

\* input.replace(/\s+/g, '')
StripWhitespace(chars) == SelectSeq(chars, LAMBDA c : c \notin Whitespace)

UpperHexDigits == <<"0", "1", "2", "3", "4", "5", "6", "7",
                    "8", "9", "A", "B", "C", "D", "E", "F">>

IsHexDigit(c) == \E i \in 1..16 : HexDigits[i] = c \/ UpperHexDigits[i] = c
HexValue(c) == (CHOOSE i \in 1..16 : HexDigits[i] = c \/ UpperHexDigits[i] = c) - 1

\* Buffer.from(chars, 'hex'): one byte for each pair of hex digits, up to the
\* first pair that is not one; a last single character is dropped
RECURSIVE FromHex(_)
FromHex(chars) ==
  IF Len(chars) < 2 \/ ~IsHexDigit(chars[1]) \/ ~IsHexDigit(chars[2]) THEN << >>
  ELSE <<16 * HexValue(chars[1]) + HexValue(chars[2])>> \o FromHex(SubSeq(chars, 3, Len(chars)))

\* Boolean(flagsRaw & (1 << n))
Bit_FromOne(x, n) == (x \div Pow(2, n + 1)) % 2 = 1
Bit(x, n) == (x \div Pow(2, n)) % 2 = 1

\* macBytes.toString('hex').match(/.{2}/g)?.join(':'), for one or more bytes
RECURSIVE JoinHex(_)
JoinHex(bytes) ==
  IF Len(bytes) = 1 THEN Hex2(bytes[1]) ELSE Hex2(Head(bytes)) \o ":" \o JoinHex(Tail(bytes))

ShellyNotCalled ==
  [pc |-> "idle", buf |-> << >>, offset |-> 0, result |-> EmptyObject, error |-> ""]

\* line 93: input.length < 10
TooShort_AtMost10(input) == Len(input.data) <= 10
TooShort(input) == Len(input.data) < 10

\* lines 93-102: pc is "null" after return null, "loop" while the while
\* loop runs, "threw" after a raised error
ShellyEntry(input) ==
  IF TooShort(input) THEN [ShellyNotCalled EXCEPT !.pc = "null"]
  ELSE LET buf == IF input.kind = "buffer" THEN input.data
                  ELSE FromHex(StripWhitespace(input.data))
       IN  IF ~CanRead(buf, 0, 2)
           THEN [ShellyNotCalled EXCEPT !.pc = "threw", !.buf = buf, !.error = "RangeError"]
           ELSE LET companyId == ReadUIntLE(buf, 0, 2)
                IN  IF companyId # ALLTERCO
                    THEN [ShellyNotCalled EXCEPT !.pc = "null", !.buf = buf]
                    ELSE [pc |-> "loop", buf |-> buf, offset |-> 2,
                          result |-> [companyId |-> companyId], error |-> ""]

\* lines 126-128: the model id and its two names
ModelFields_NamesSwapped(result, modelId) ==
  PutLookup(PutLookup(Put(result, "modelId", modelId),
                      "modelIdShortName", SHELLY_MODEL_LONG_NAMES, modelId),
            "modelIdLongName", SHELLY_MODEL_SHORT_NAMES, modelId)
ModelFields(result, modelId) ==
  PutLookup(PutLookup(Put(result, "modelId", modelId),
                      "modelIdShortName", SHELLY_MODEL_SHORT_NAMES, modelId),
            "modelIdLongName", SHELLY_MODEL_LONG_NAMES, modelId)

\* lines 140-144, the default case: offset is the offset after the type byte
UnknownBlock_SkipTypeByte(st, offset) == [st EXCEPT !.offset = offset]
UnknownBlock_StaysPut(st, offset) == [st EXCEPT !.offset = offset - 1]
UnknownBlock(st, offset) == [st EXCEPT !.offset = Len(st.buf)]

\* one iteration of the while loop, lines 106-145
ShellyLoopBody(st) ==
  LET buf == st.buf
      blockType == At(buf, st.offset)
      offset == st.offset + 1
  IN  CASE blockType = 1 ->
             IF ~CanRead(buf, offset, 2)
             THEN [st EXCEPT !.offset = offset, !.pc = "threw", !.error = "RangeError"]
             ELSE LET flagsRaw == ReadUIntLE(buf, offset, 2)
                  IN  [st EXCEPT !.offset = offset + 2,
                         !.result = Put(@, "flags",
                            [discoverable |-> Bit(flagsRaw, 0),
                             authEnabled |-> Bit(flagsRaw, 1),
                             rpcEnabled |-> Bit(flagsRaw, 2),
                             buzzerEnabled |-> Bit(flagsRaw, 3),
                             inPairingMode |-> Bit(flagsRaw, 4)])]
        [] blockType = 11 ->
             IF ~CanRead(buf, offset, 2)
             THEN [st EXCEPT !.offset = offset, !.pc = "threw", !.error = "RangeError"]
             ELSE LET modelId == ReadUIntLE(buf, offset, 2)
                  IN  [st EXCEPT !.offset = offset + 2,
                         !.result = ModelFields(@, modelId)]
        [] blockType = 10 ->
             LET macBytes == Slice(buf, offset, offset + 6)
             IN  [st EXCEPT !.offset = offset + 6,
                    !.result = IF macBytes = << >> THEN Delete(@, "mac")
                               ELSE Put(@, "mac", JoinHex(macBytes))]
        [] OTHER -> UnknownBlock(st, offset)

\* while (offset < buf.length)
ShellyLooping(st) == st.pc = "loop" /\ st.offset < Len(st.buf)

RECURSIVE ShellyRunLoop(_)
ShellyRunLoop(st) == IF ShellyLooping(st) THEN ShellyRunLoop(ShellyLoopBody(st)) ELSE st

\* what a call gives back: null, the result object, or the error it raised
ShellyOutcome(st) ==
  CASE st.pc = "threw" -> [kind |-> "threw", result |-> EmptyObject]
    [] st.pc = "null" -> [kind |-> "null", result |-> EmptyObject]
    [] OTHER -> [kind |-> "result", result |-> st.result]

\* the whole call
decodeShellyManufacturerData(input) == ShellyOutcome(ShellyRunLoop(ShellyEntry(input)))

\* =================================================================== state
\* buf    the service data given to decodeBTHome
\* bt     the locals of the decodeBTHome call (pc: idle, loop, break,
\*        returned, threw)
\* md     the manufacturer data bytes of an advertisement
\* input  md as given to decodeShellyManufacturerData: Buffer or hex string
\* sh     the locals of the decodeShellyManufacturerData call (pc: idle,
\*        loop, null, returned, threw)
\* seen   the ids read by the finished calls of decodeBTHome (history)
VARIABLES buf, bt, md, input, sh, seen

\* platform           the Platform under construction (pc: new, verify,
\*                    register, constructed, threw), what the Matterbridge
\*                    it is given answers to the version check, the events
\*                    of its BTHome scanner it has a handler for, the error
\*                    raised
\* isScanning         BTHome.isScanning
\* noble              BTHome.noble: "undefined" or "loaded"
\* bthomePeripherals  BTHome.bthomePeripherals: address -> device
\* adapter            the noble module, shared by all who import it: the
\*                    adapter state and how many times handleDiscovery is
\*                    registered as its 'discover' listener
\* calls              the calls of start() and stop() that overlap, each with
\*                    the await it is suspended at (pc); a call that has
\*                    settled stays until the next call takes its place
\* history            the last advertisement noble has delivered, the events
\*                    the scanner has emitted for it, and what was so before
\*                    it: the addresses fcd2 service data has come from, the
\*                    addresses announced by 'discovered', whether its
\*                    address was in bthomePeripherals (known), and whether
\*                    it is after it (kept), the model id of its device
\*                    before and after it (history)
VARIABLES platform, isScanning, noble, bthomePeripherals, adapter, calls, history

decoderVars == <<buf, bt, md, input, sh, seen>>
scannerVars == <<platform, isScanning, noble, bthomePeripherals, adapter, calls, history>>
vars == <<buf, bt, md, input, sh, seen,
          platform, isScanning, noble, bthomePeripherals, adapter, calls, history>>

\* ------------------------------------------------- decodeBTHome, stepwise
\* lines 51-60: readings, unknown, offset and ids are new locals of each call
BTCall_KeepsIds ==
  /\ bt.pc = "idle"
  /\ bt' = IF ~CanRead(buf, 0, 1)
           THEN [NotCalled EXCEPT !.pc = "threw", !.error = "RangeError"]
           ELSE [Entry(buf) EXCEPT !.ids = bt.ids]
  /\ UNCHANGED <<buf, md, input, sh, seen>> /\ UNCHANGED scannerVars
BTCall ==
  /\ bt.pc = "idle"
  /\ bt' = IF ~CanRead(buf, 0, 1)
           THEN [NotCalled EXCEPT !.pc = "threw", !.error = "RangeError"]
           ELSE Entry(buf)
  /\ UNCHANGED <<buf, md, input, sh, seen>> /\ UNCHANGED scannerVars

\* lines 62-115, one iteration
BTIterate ==
  /\ Looping(buf, bt)
  /\ bt' = LoopBody(buf, bt)
  /\ UNCHANGED <<buf, md, input, sh, seen>> /\ UNCHANGED scannerVars

\* line 117
BTReturn ==
  /\ bt.pc \in {"loop", "break"}
  /\ ~Looping(buf, bt)
  /\ bt' = [bt EXCEPT !.pc = "returned"]
  /\ UNCHANGED <<buf, md, input, sh, seen>> /\ UNCHANGED scannerVars

\* --------------------------------- decodeShellyManufacturerData, stepwise
\* lines 92-102
ShellyCall ==
  /\ sh.pc = "idle"
  /\ sh' = ShellyEntry(input)
  /\ UNCHANGED <<buf, bt, md, input, seen>> /\ UNCHANGED scannerVars

\* lines 105-146, one iteration
ShellyIterate ==
  /\ ShellyLooping(sh)
  /\ sh' = ShellyLoopBody(sh)
  /\ UNCHANGED <<buf, bt, md, input, seen>> /\ UNCHANGED scannerVars

\* line 148
ShellyReturn ==
  /\ sh.pc = "loop"
  /\ ~ShellyLooping(sh)
  /\ sh' = [sh EXCEPT !.pc = "returned"]
  /\ UNCHANGED <<buf, bt, md, input, seen>> /\ UNCHANGED scannerVars

\* ================================================================== inputs
\* all sequences over S of length at most n
SeqsUpTo(S, n) == UNION {[1..k -> S] : k \in 0..n}

\* all prefixes of the sequences of a set
Prefixes(S) == UNION {{SubSeq(s, 1, n) : n \in 0..Len(s)} : s \in S}

\* ------------------------------------------------- inputs of decodeBTHome
\* the header of a BTHome advertisement: version 2, not encrypted, regular interval
PlainHeader == 2 * 32

\* Streams: every buffer of a header and up to MaxStream bytes, each of which
\* is the id of battery (1 byte), temperature (2 bytes, signed), humidity
\* (2 bytes), text (length-prefixed) or firmwareVersionShort (3 bytes), or
\* 0xff, which is no id; the same bytes serve as values and lengths.
MaxStream == 5
StreamBytes == {1, 2, 3, 83, 242, 255}
StreamInputs ==
  {<< >>} \cup {<<PlainHeader>> \o b : b \in SeqsUpTo(StreamBytes, MaxStream)}

\* Repeated ids: every buffer of a header and up to MaxRepeated bytes, each
\* the id of battery (1 byte), humidity 0x03 (2 bytes) or humidity 0x2e (1 byte)
MaxRepeated == 7
RepeatedBytes == {1, 3, 46}
RepeatedInputs == {<<PlainHeader>> \o b : b \in SeqsUpTo(RepeatedBytes, MaxRepeated)}

\* Headers: every header byte, followed by up to MaxHeaderBody bytes
MaxHeaderBody == 2
HeaderBodyBytes == {1, 255}
HeaderInputs ==
  {<<h>> \o b : h \in Byte, b \in SeqsUpTo(HeaderBodyBytes, MaxHeaderBody)}

\* Numeric fields: [header, id, value bytes] for every entry without parser.
\* TLC integers have 32 bits: the raw value of an unsigned 4-byte field is
\* kept below 2^31.
NumericBytes == {0, 1, 9, 196, 255}
NumericIds == {id \in DOMAIN BTHOME_SPEC : BTHOME_SPEC[id].parser = "none"}
RawFits(id, p) ==
  BTHOME_SPEC[id].bytes = 4 /\ ~BTHOME_SPEC[id].signed => p[4] < 128
NumericInputs ==
  UNION {{<<PlainHeader, id>> \o p : p \in {q \in [1..BTHOME_SPEC[id].bytes -> NumericBytes] : RawFits(id, q)}}
         : id \in NumericIds}

\* a battery field of value 100, and a byte that is no id
BatteryField == <<1, 100>>
FollowingBytes == {<< >>, BatteryField, <<104>>}

\* Signed fields: [header, 0x02, lo, hi] for every high byte, alone or
\* followed by a battery field
SignedLowBytes == {0, 1, 127, 128, 206, 255}
SignedInputs ==
  {<<PlainHeader, 2, lo, hi>> \o t : lo \in SignedLowBytes, hi \in Byte,
                                     t \in {<< >>, BatteryField}}

\* Buttons: [header, 0x3a, c] for every byte c, alone or followed by a
\* battery field
ButtonInputs ==
  {<<PlainHeader, 58, c>> \o t : c \in Byte, t \in {<< >>, BatteryField}}

\* Length-prefixed fields: [header, 0x53 or 0x54, L, L bytes], alone or
\* followed by further bytes; the bytes are the letters e, h, l, o
MaxText == 5
TextBytes == {101, 104, 108, 111}
TextInputs ==
  {<<PlainHeader, id, Len(p)>> \o p \o t :
     id \in {83, 84}, p \in SeqsUpTo(TextBytes, MaxText), t \in FollowingBytes}

\* Firmware versions: [header, 0xf1, four bytes], alone or followed by a
\* battery field
FirmwareBytes == {0, 1, 2, 3, 4, 255}
FirmwareInputs ==
  {<<PlainHeader, 241>> \o p \o t :
     p \in [1..4 -> FirmwareBytes], t \in {<< >>, BatteryField}}

BTHomeInputs ==
  StreamInputs \cup RepeatedInputs \cup HeaderInputs \cup NumericInputs
    \cup SignedInputs \cup ButtonInputs \cup TextInputs \cup FirmwareInputs

\* ------------------------- inputs of decodeShellyManufacturerData
\* 0x0ba9 little-endian, and the same bytes swapped
CompanyIdBytes == {<<169, 11>>, <<11, 169>>}

\* flags blocks, model blocks (3 is in the name tables, 4 is not), an
\* address block and a block of no known type
Blocks ==
  {<<1, 21, 0>>, <<1, 234, 255>>, <<11, 3, 0>>, <<11, 4, 0>>,
   <<10, 124, 198, 182, 101, 138, 13>>, <<255>>}

MaxBlocks == 3

RECURSIVE Flatten(_)
Flatten(ss) == IF ss = << >> THEN << >> ELSE Head(ss) \o Flatten(Tail(ss))

\* the company id followed by up to MaxBlocks blocks, cut at any length
ManufacturerData ==
  Prefixes({c \o Flatten(bs) : c \in CompanyIdBytes, bs \in SeqsUpTo(Blocks, MaxBlocks)})

\* Buffer.toString('hex') as a sequence of characters
RECURSIVE HexChars(_)
HexChars(bytes) ==
  IF bytes = << >> THEN << >>
  ELSE <<HexDigits[(Head(bytes) \div 16) + 1], HexDigits[(Head(bytes) % 16) + 1]>>
       \o HexChars(Tail(bytes))

\* n spaces inserted after the first pos characters
Spaced(chars, pos, n) ==
  SubSeq(chars, 1, pos) \o [i \in 1..n |-> " "] \o SubSeq(chars, pos + 1, Len(chars))

MaxSpaces == 8

\* the hex strings of a byte sequence: plain, or with 1 or MaxSpaces spaces
\* in front, inside the first byte or at the end
HexStrings(bytes) ==
  LET chars == HexChars(bytes)
  IN  {Spaced(chars, pos, n) : pos \in {0, 1, Len(chars)} \cap (0..Len(chars)),
                               n \in {0, 1, MaxSpaces}}

ShellyInputs(bytes) ==
  {BufferInput(bytes)} \cup {StringInput(s) : s \in HexStrings(bytes)}

\* Single fields: the company id followed by
\*   a flags block of every low byte, an address block and possibly a model block;
\*   a model block of ids in and out of the name tables and an address block;
\*   an address block, every byte as a block type, and possibly a further block
AddressBlock == <<10, 124, 198, 182, 101, 138, 13>>
FlagHighBytes == {0, 1, 84, 128, 255}
FlagData ==
  {<<169, 11, 1, lo, hi>> \o AddressBlock \o t :
     lo \in Byte, hi \in FlagHighBytes, t \in {<< >>, <<11, 3, 0>>}}
ModelLowBytes == (0..9) \cup {255}
ModelData ==
  {<<169, 11, 11, lo, hi>> \o AddressBlock : lo \in ModelLowBytes, hi \in {0, 1}}
BlockTypeData ==
  {<<169, 11>> \o AddressBlock \o <<ty>> \o t :
     ty \in Byte, t \in {<< >>, <<11, 3, 0>>, <<1, 21, 0>>}}
FieldData == FlagData \cup ModelData \cup BlockTypeData

\* a byte sequence as a Buffer and as its plain hex string
PlainInputs(bytes) == {BufferInput(bytes), StringInput(HexChars(bytes))}

\* ============================================================ BTHome class
\* The scanner is the instance the Platform makes with new BTHome(): filterBle
\* false, filterBTHome true, filterShellyBle false, no filterAddress (BTHome.ts
\* line 155), so blePeripherals stays empty.  lastSeen (the clock) is left out
\* of a device.

\* the JS value undefined, and a string of n characters
Undefined == [t |-> "undefined", m |-> 0, d |-> 0, s |-> ""]
Name(s, n) == [t |-> "string", m |-> n, d |-> 0, s |-> s]

\* isValidString(value, minLength) and isValidNumber(value, min) of matterbridge/utils
isValidString(value, minLength) == value.t = "string" /\ value.m >= minLength
isValidNumber(value, min) == value.t = "number" /\ value.m >= min

\* Object.assign(target, source)
Assign(target, source) ==
  [k \in (DOMAIN target) \cup (DOMAIN source) |->
     IF k \in DOMAIN source THEN source[k] ELSE target[k]]

\* obj[k] = v, where v may be missing from the object it is read from
PutFrom(obj, k, from) == IF k \in DOMAIN from THEN Put(obj, k, from[k]) ELSE Delete(obj, k)

\* an entry of advertisement.serviceData
ServiceEntry(uuid, data) == [uuid |-> uuid, data |-> data]

\* lines 188-194
isBTHomePeripheral(peripherals, p) ==
  \/ \E a \in DOMAIN peripherals : peripherals[a].mac = p.address
  \/ \E i \in DOMAIN p.serviceData : p.serviceData[i].uuid = "fcd2"

\* the events emitted by the scanner
Discovered(address) == [kind |-> "discovered", address |-> address]
Update(address) == [kind |-> "update", address |-> address]

\* lines 289 and 301
PacketId(readings) ==
  IF "packetId" \in DOMAIN readings /\ isValidNumber(readings["packetId"], 0)
  THEN readings["packetId"] ELSE Num(0, 0)

\* lines 293-303: the device made from the first advertisement
NewDevice(p, bthome) ==
  [mac |-> p.address,
   rssi |-> p.rssi,
   localName |-> IF isValidString(p.localName, 3) THEN p.localName
                 ELSE Name("BTHome " \o p.address, 24),
   version |-> bthome.version,
   encrypted |-> bthome.encrypted,
   trigger |-> bthome.trigger,
   data |-> bthome.readings,
   packetId |-> PacketId(bthome.readings)]

\* lines 282-290: the known device after a later advertisement
UpdatedDevice(device, p, bthome) ==
  [device EXCEPT
     !["rssi"] = p.rssi,
     !["localName"] = IF p.localName = Undefined THEN @ ELSE p.localName,
     !["version"] = bthome.version,
     !["encrypted"] = bthome.encrypted,
     !["trigger"] = bthome.trigger,
     !["data"] = Assign(@, bthome.readings),
     !["packetId"] = PacketId(bthome.readings)]

\* lines 279-306, after decodeBTHome; st holds the map, the events emitted
\* so far and whether an error was raised
Fcd2Entry(st, p, bthome) ==
  IF bthome.threw THEN [st EXCEPT !.threw = TRUE]
  ELSE IF p.address \in DOMAIN st.peripherals
  THEN [st EXCEPT !.peripherals = Put(@, p.address, UpdatedDevice(@[p.address], p, bthome)),
                  !.events = Append(@, Update(p.address))]
  ELSE [st EXCEPT !.peripherals = Put(@, p.address, NewDevice(p, bthome)),
                  !.events = Append(@, Discovered(p.address))]

\* lines 277-309, the body of serviceData.forEach for one entry
ServiceDataEntry(st, p, entry) ==
  IF entry.uuid # "fcd2" THEN st ELSE Fcd2Entry(st, p, decodeBTHome(entry.data))

\* lines 273-311: forEach stops at the first entry that raises
RECURSIVE ServiceData(_, _, _)
ServiceData(st, p, i) ==
  IF st.threw \/ i > Len(p.serviceData) THEN st
  ELSE ServiceData(ServiceDataEntry(st, p, p.serviceData[i]), p, i + 1)

\* the company id of Apple, 0x004c
APPLE == 76

\* lines 326-328: the model id and its names are taken from the decoded data
ModelOf(device, result) ==
  PutFrom(PutFrom(PutFrom(device, "modelId", result),
                  "modelIdShortName", result),
          "modelIdLongName", result)

\* lines 319-331, after decodeShellyManufacturerData
ShellyData(st, p, data) ==
  CASE data.kind = "threw" -> [st EXCEPT !.threw = TRUE]
    [] data.kind = "null" -> st
    [] OTHER ->
         IF p.address \notin DOMAIN st.peripherals THEN st
         ELSE [st EXCEPT !.peripherals = Put(@, p.address, ModelOf(@[p.address], data.result)),
                         !.events = Append(@, Update(p.address))]

\* lines 313-337
ManufacturerDataOf(st, p) ==
  IF st.threw \/ Len(p.manufacturerData) < 2 THEN st
  ELSE IF ReadUIntLE(p.manufacturerData, 0, 2) # ALLTERCO THEN st
  ELSE ShellyData(st, p, decodeShellyManufacturerData(BufferInput(p.manufacturerData)))

\* lines 200-343, one run of the listener: the map and the events afterwards.
\* An error raised by a decoder ends the run (the promise of the async
\* function is rejected); what was done before it stays done.
handleDiscovery(st, p) ==
  IF ~isBTHomePeripheral(st.peripherals, p) THEN st
  ELSE [ManufacturerDataOf(ServiceData(st, p, 1), p) EXCEPT !.threw = FALSE]

\* noble emits 'discover': every registration of the listener runs, in turn
RECURSIVE EmitDiscover(_, _, _)
EmitDiscover(st, p, n) ==
  IF n = 0 THEN st ELSE EmitDiscover(handleDiscovery(st, p), p, n - 1)

\* ------------------------------------------------------------ start, stop
\* at most MaxCalls calls of start() and stop() are under way at a time, and
\* handleDiscovery is registered at most MaxListeners times
MaxCalls == 2
MaxListeners == 2

\* a call of start() or stop(): pc is the await it is suspended at
\*   start: "import" (line 385), "wait" (line 393, the promise of lines
\*          357-377 pending), "powered" (line 393, waitForPoweredOn
\*          fulfilled), "scan" (line 404)
\*   stop:  "stopping" (line 434)
\* or "resolved" / "rejected" once the promise of the call is settled, or
\* "idle" where no call has been made.
\* listener and timer: the stateChange listener of waitForPoweredOn is
\* registered on the noble module, its 30 s timer is set.  note: the last message logged.  scanning: the
\* value of isScanning when the call settled (history).
Call(op, pc) ==
  [op |-> op, pc |-> pc, listener |-> FALSE, timer |-> FALSE, note |-> "", scanning |-> FALSE]

Settled(call, pc, note, scanning) ==
  [call EXCEPT !.pc = pc, !.note = note, !.scanning = scanning]

NoCalls == [i \in 1..MaxCalls |-> Call("none", "idle")]

\* a call is under way
Pending(call) == call.pc \notin {"idle", "resolved", "rejected"}

\* the place of a call can be taken: the call has settled and has left no
\* stateChange listener behind
Free(call) == ~Pending(call) /\ ~call.listener

\* the place of the next call
NextCall == CHOOSE i \in DOMAIN calls :
              /\ Free(calls[i])
              /\ \A j \in DOMAIN calls : Free(calls[j]) => i <= j

\* lines 380-385: the guard, then the import is awaited
StartCall ==
  /\ platform.pc = "constructed"
  /\ \E i \in DOMAIN calls : Free(calls[i])
  /\ calls' = [calls EXCEPT ![NextCall] =
                 IF isScanning
                 THEN Settled(Call("start", "resolved"), "resolved",
                              "BLE scan already started", isScanning)
                 ELSE Call("start", "import")]
  /\ UNCHANGED <<isScanning, noble, adapter, history>>
  /\ UNCHANGED decoderVars

\* start() called on the scanner by other code than the Platform
Start == StartCall /\ UNCHANGED <<platform, bthomePeripherals>>

\* lines 350-377, up to the promise waitForPoweredOn returns
waitForPoweredOn(call, state) ==
  CASE state = "poweredOn" -> [call EXCEPT !.pc = "powered"]
    [] state \in {"unsupported", "unauthorized"} ->
         Settled(call, "rejected", "Bluetooth adapter not usable", isScanning)
    [] OTHER -> [call EXCEPT !.pc = "wait", !.listener = TRUE, !.timer = TRUE]

\* lines 385-393: the import settles; noble is kept and waitForPoweredOn called
StartImported(i) ==
  /\ calls[i].op = "start" /\ calls[i].pc = "import"
  /\ \E loaded \in BOOLEAN :
       IF loaded
       THEN /\ noble' = "loaded"
            /\ calls' = [calls EXCEPT ![i] = waitForPoweredOn(@, adapter.state)]
       ELSE /\ calls' = [calls EXCEPT ![i] =
                           Settled(@, "rejected", "Failed to load noble", isScanning)]
            /\ UNCHANGED noble
  /\ UNCHANGED <<platform, isScanning, bthomePeripherals, adapter, history>>
  /\ UNCHANGED decoderVars

\* this.noble?.removeListener('stateChange', onStateChange): nothing is
\* removed when this.noble is undefined
RemoveStateListener(call) == [call EXCEPT !.listener = (noble = "undefined")]

\* lines 358-369, onStateChange of one call, run as long as it is registered;
\* resolve and reject have no effect on a promise that is settled
onStateChange(call, state) ==
  IF ~call.listener THEN call
  ELSE CASE state = "poweredOn" ->
              [RemoveStateListener(call) EXCEPT
                 !.timer = FALSE,
                 !.pc = IF @ = "wait" THEN "powered" ELSE @]
         [] state \in {"unsupported", "unauthorized"} ->
              IF call.pc = "wait"
              THEN Settled([RemoveStateListener(call) EXCEPT !.timer = FALSE],
                           "rejected", "Bluetooth adapter is not usable", isScanning)
              ELSE [RemoveStateListener(call) EXCEPT !.timer = FALSE]
         [] OTHER -> call

\* the adapter changes its state and noble emits 'stateChange'
StateChange(state) ==
  /\ platform.pc = "constructed"
  /\ state # adapter.state
  /\ adapter' = [adapter EXCEPT !.state = state]
  /\ calls' = [i \in DOMAIN calls |-> onStateChange(calls[i], state)]
  /\ UNCHANGED <<platform, isScanning, noble, bthomePeripherals, history>>
  /\ UNCHANGED decoderVars

\* lines 371-374: the timer of a waiting call fires
Timeout(i) ==
  /\ calls[i].timer
  /\ calls' = [calls EXCEPT ![i] =
                 Settled([RemoveStateListener(@) EXCEPT !.timer = FALSE],
                         "rejected", "Timeout waiting for the Bluetooth adapter", isScanning)]
  /\ UNCHANGED <<platform, isScanning, noble, bthomePeripherals, adapter, history>>
  /\ UNCHANGED decoderVars

\* lines 393-404: after waitForPoweredOn, startScanningAsync is called on
\* this.noble and awaited
StartPowered(i) ==
  /\ calls[i].op = "start" /\ calls[i].pc = "powered"
  /\ calls' = [calls EXCEPT ![i] =
                 IF noble = "undefined"
                 THEN Settled(@, "rejected", "Failed to start BLE scanning", isScanning)
                 ELSE [@ EXCEPT !.pc = "scan"]]
  /\ UNCHANGED <<platform, isScanning, noble, bthomePeripherals, adapter, history>>
  /\ UNCHANGED decoderVars

\* lines 404-415: startScanningAsync settles; the listener is registered on
\* this.noble and isScanning set
StartScanned_FlagBeforeScan(i) ==
  /\ calls[i].op = "start" /\ calls[i].pc = "scan"
  /\ adapter.discover < MaxListeners
  /\ \E started \in BOOLEAN :
       CASE ~started ->
              /\ calls' = [calls EXCEPT ![i] =
                             Settled(@, "rejected", "Failed to start BLE scanning", TRUE)]
              /\ isScanning' = TRUE
              /\ UNCHANGED adapter
         [] started /\ noble = "undefined" ->
              /\ calls' = [calls EXCEPT ![i] = Settled(@, "rejected", "TypeError", isScanning)]
              /\ UNCHANGED <<isScanning, adapter>>
         [] OTHER ->
              /\ adapter' = [adapter EXCEPT !.discover = @ + 1]
              /\ isScanning' = TRUE
              /\ calls' = [calls EXCEPT ![i] = Settled(@, "resolved", "BLE scan started", TRUE)]
  /\ UNCHANGED <<platform, noble, bthomePeripherals, history>>
  /\ UNCHANGED decoderVars
StartScanned(i) ==
  /\ calls[i].op = "start" /\ calls[i].pc = "scan"
  /\ adapter.discover < MaxListeners
  /\ \E started \in BOOLEAN :
       CASE ~started ->
              /\ calls' = [calls EXCEPT ![i] =
                             Settled(@, "rejected", "Failed to start BLE scanning", isScanning)]
              /\ UNCHANGED <<isScanning, adapter>>
         [] started /\ noble = "undefined" ->
              /\ calls' = [calls EXCEPT ![i] = Settled(@, "rejected", "TypeError", isScanning)]
              /\ UNCHANGED <<isScanning, adapter>>
         [] OTHER ->
              /\ adapter' = [adapter EXCEPT !.discover = @ + 1]
              /\ isScanning' = TRUE
              /\ calls' = [calls EXCEPT ![i] = Settled(@, "resolved", "BLE scan started", TRUE)]
  /\ UNCHANGED <<platform, noble, bthomePeripherals, history>>
  /\ UNCHANGED decoderVars

\* lines 422-434: the guards, the listener is removed (one registration of
\* it, if there is one) and stopScanningAsync awaited
StopCall ==
  /\ platform.pc = "constructed"
  /\ \E i \in DOMAIN calls : Free(calls[i])
  /\ CASE ~isScanning ->
            /\ calls' = [calls EXCEPT ![NextCall] =
                           Settled(Call("stop", "resolved"), "resolved",
                                   "BLE scan already stopped", isScanning)]
            /\ UNCHANGED adapter
       [] isScanning /\ noble = "undefined" ->
            /\ calls' = [calls EXCEPT ![NextCall] =
                           Settled(Call("stop", "resolved"), "resolved",
                                   "Noble is not loaded", isScanning)]
            /\ UNCHANGED adapter
       [] OTHER ->
            /\ calls' = [calls EXCEPT ![NextCall] = Call("stop", "stopping")]
            /\ adapter' = [adapter EXCEPT !.discover = IF @ > 0 THEN @ - 1 ELSE 0]
  /\ UNCHANGED <<isScanning, noble, history>>
  /\ UNCHANGED decoderVars

\* stop() called on the scanner by other code than the Platform
Stop == StopCall /\ UNCHANGED <<platform, bthomePeripherals>>

\* lines 434-442: stopScanningAsync settles
StopSettled(i) ==
  /\ calls[i].op = "stop" /\ calls[i].pc = "stopping"
  /\ \E stopped \in BOOLEAN :
       /\ isScanning' = IF stopped THEN FALSE ELSE isScanning
       /\ calls' = [calls EXCEPT ![i] =
                      Settled(@, "resolved",
                              IF stopped THEN "BLE scan stopped" ELSE "Error stopping BLE scan",
                              isScanning')]
  /\ noble' = "undefined"
  /\ bthomePeripherals' = EmptyObject
  /\ UNCHANGED <<platform, adapter, history>>
  /\ UNCHANGED decoderVars

\* ------------------------------------------- the listeners of the Platform
\* module.ts lines 171-191, the converter: the readings with a device type,
\* a cluster and an attribute, and the reading of the cluster 'Switch'; the
\* other readings have no device type or no converter
AttributeReadings ==
  {"battery", "temperature", "humidity", "pressure", "motionState", "movingState",
   "occupancyState", "illuminance", "doorState", "garageDoorState", "windowState"}
SwitchReadings == {"button"}

\* module.ts lines 207-231: the child endpoints addDevice makes for a device
Children(device) ==
  {property \in DOMAIN device.data : property \in AttributeReadings \cup SwitchReadings}

\* for (const property in device.data): the properties in the order they
\* were put in, which for the advertisements of the Platform below is this
PropertyOrder == <<"packetId", "button", "battery">>
Properties(data) == SelectSeq(PropertyOrder, LAMBDA property : property \in DOMAIN data)

Presses == {Str("single_press"), Str("double_press"), Str("long_press")}

\* module.ts lines 243-273, the loop of updateDevice from the properties rest
\* on, up to its next await or its end: awaiting is "attribute" at line 262,
\* "switch" at lines 267-269 (triggerSwitchEvent has been called: triggered),
\* "" at the end.  Line 271 runs at once where no event is triggered.
RECURSIVE updateLoop(_, _, _)
updateLoop(device, children, rest) ==
  IF rest = << >>
  THEN [device |-> device, rest |-> << >>, awaiting |-> "", triggered |-> 0]
  ELSE CASE Head(rest) \in AttributeReadings ->
              [device |-> device, rest |-> rest, awaiting |-> "attribute", triggered |-> 0]
         [] Head(rest) \in SwitchReadings ->
              IF Head(rest) \in children /\ device.data[Head(rest)] \in Presses
              THEN [device |-> device, rest |-> rest, awaiting |-> "switch", triggered |-> 1]
              ELSE updateLoop([device EXCEPT !.data = Put(@, Head(rest), Str("none"))],
                              children, Tail(rest))
         [] OTHER -> updateLoop(device, children, Tail(rest))

\* the loop goes on after the await: line 271 after that of the switch event
resumeLoop(device, children, awaiting, rest) ==
  updateLoop(IF awaiting = "switch"
             THEN [device EXCEPT !.data = Put(@, Head(rest), Str("none"))]
             ELSE device,
             children, Tail(rest))

\* the number of switch events triggered for a reading, with one more: none,
\* one, or more than one (history)
Triggered(count, more) == IF count + more > 1 THEN 2 ELSE count + more

\* a handler suspended at an await: "register" in addDevice at line 234,
\* "attribute" and "switch" in updateDevice
Task(kind, mac, children, rest) ==
  [kind |-> kind, mac |-> mac, children |-> children, rest |-> rest]

\* hs is the Platform and the map of the scanner.  The loop of updateDevice
\* has run on the device of mac in the map up to run.
Updated(hs, mac, children, run) ==
  [platform |->
     [hs.platform EXCEPT
        !.tasks = IF run.awaiting = "" THEN @
                  ELSE @ (+) SetToBag({Task(run.awaiting, mac, children, run.rest)}),
        !.switched = [@ EXCEPT ![mac] = Triggered(@, run.triggered)]],
   peripherals |-> Put(hs.peripherals, mac, run.device)]

\* module.ts lines 239-243: updateDevice(device), validateDevice true (no
\* white list and no black list); nothing is done for a device that is not
\* bridged
updateDevice(hs, mac) ==
  IF mac \notin DOMAIN hs.platform.bridgedDevices \/ mac \notin DOMAIN hs.peripherals
  THEN hs
  ELSE Updated(hs, mac, hs.platform.bridgedDevices[mac],
               updateLoop(hs.peripherals[mac], hs.platform.bridgedDevices[mac],
                          Properties(hs.peripherals[mac].data)))

\* module.ts lines 287-291: savePeripherals(), the list of the devices of the map
savePeripherals(pl, peripherals) == [pl EXCEPT !.storage = peripherals]

\* module.ts lines 77-87: the listener of 'discovered' calls addDevice, which
\* is suspended at registerDevice, and then savePeripherals
onDiscovered(hs, mac) ==
  [hs EXCEPT !.platform =
     savePeripherals([@ EXCEPT !.tasks = @ (+) SetToBag({Task("register", mac,
                                           Children(hs.peripherals[mac]), << >>)})],
                     hs.peripherals)]

\* module.ts lines 89-94: the listener of 'update'
onUpdate(hs, mac) == updateDevice(hs, mac)

\* the listeners run on the events of an advertisement, in the order emitted
RECURSIVE HandleEvents(_, _, _)
HandleEvents(hs, events, i) ==
  IF i > Len(events) THEN hs
  ELSE HandleEvents(IF events[i].kind = "discovered"
                    THEN onDiscovered(hs, events[i].address)
                    ELSE onUpdate(hs, events[i].address),
                    events, i + 1)

\* the count of switch events of a device starts anew with an advertisement
\* of it (history)
Heard(pl, address) ==
  [pl EXCEPT !.switched = [@ EXCEPT ![address] = 0]]

\* st, the outcome of handleDiscovery, after the listeners the Platform has
\* registered have run
Handle(st, p) ==
  IF platform.handlers = {}
  THEN [platform |-> platform, peripherals |-> st.peripherals]
  ELSE HandleEvents([platform |-> Heard(platform, p.address),
                     peripherals |-> st.peripherals], st.events, 1)

\* at most MaxTasks handlers are suspended at a time
MaxTasks == 2

\* noble delivers an advertisement to the registered listeners
Advertisement(p) ==
  [kind |-> "advertisement", address |-> p.address,
   fcd2 |-> \E i \in DOMAIN p.serviceData : p.serviceData[i].uuid = "fcd2"]

NoHistory ==
  [advertisement |-> [kind |-> "none", address |-> "", fcd2 |-> FALSE],
   events |-> << >>, heard |-> {}, discovered |-> {}, known |-> FALSE, kept |-> FALSE,
   modelBefore |-> {}, modelAfter |-> {}]

\* the model id of the device of an address in a map: none or one
ModelIdOf(peripherals, address) ==
  IF address \in DOMAIN peripherals /\ "modelId" \in DOMAIN peripherals[address]
  THEN {peripherals[address]["modelId"]} ELSE {}

\* the map, the Platform and the history after the listeners have run
Handled(hs) ==
  /\ bthomePeripherals' = hs.peripherals
  /\ platform' = hs.platform
  /\ BagCardinality(hs.platform.tasks) <= MaxTasks

Delivered(st, p) ==
  /\ Handled(Handle(st, p))
  /\ history' =
       [advertisement |-> Advertisement(p),
        events |-> st.events,
        heard |-> history.heard \cup
                    (IF history.advertisement.fcd2
                     THEN {history.advertisement.address} ELSE {}),
        discovered |-> history.discovered \cup
                    {history.events[i].address :
                       i \in {j \in DOMAIN history.events :
                                history.events[j].kind = "discovered"}},
        known |-> p.address \in DOMAIN bthomePeripherals,
        kept |-> p.address \in DOMAIN st.peripherals,
        modelBefore |-> ModelIdOf(bthomePeripherals, p.address),
        modelAfter |-> ModelIdOf(st.peripherals, p.address)]

Discover(p) ==
  /\ adapter.discover > 0
  /\ Delivered(EmitDiscover([peripherals |-> bthomePeripherals, events |-> << >>,
                             threw |-> FALSE], p, adapter.discover), p)
  /\ UNCHANGED <<isScanning, noble, adapter, calls>>
  /\ UNCHANGED decoderVars

\* ------------------------------------------------------------- Platform
\* a callback of the Platform that Matterbridge has called: pc is the await
\* it is suspended at, value the mac of onAction('delete', mac).  rest,
\* device, children, awaiting and properties are those of loadPeripherals:
\* the macs of the stored devices to load, the first of them being added.
\* begin: the macs of the map of the scanner when the callback was called
\* (history).
\* scanning: isScanning when the callback was called (history).
\* before: the begin of the callback before, if that was onShutdown, which
\* previous says (history).
NoCallback ==
  [name |-> "none", pc |-> "idle", value |-> "", rest |-> << >>,
   device |-> EmptyObject, children |-> {}, awaiting |-> "", properties |-> << >>,
   begin |-> {}, scanning |-> FALSE, previous |-> FALSE, before |-> {}]

Callback(name, pc, value) ==
  [NoCallback EXCEPT !.name = name, !.pc = pc, !.value = value,
                     !.begin = DOMAIN bthomePeripherals, !.scanning = isScanning,
                     !.previous = (platform.callback.name = "onShutdown"),
                     !.before = IF platform.callback.name = "onShutdown"
                                THEN platform.callback.begin ELSE {}]

\* module.ts lines 65-68: super(), then the fields btHome and bridgedDevices.
\* storage is the list kept under 'bthomePeripherals' in the context of the
\* plugin, bridgedDevices the child endpoints of each bridged mac, tasks the
\* suspended handlers (a bag: any of them goes on next), callback the
\* callback under way, started whether onStart has been called and
\* onShutdown has not, switched the number
\* of switch events triggered for each mac since its last advertisement
\* (history).
NotConstructed ==
  [pc |-> "new", verify |-> "true", handlers |-> {}, error |-> "",
   storage |-> EmptyObject, bridgedDevices |-> EmptyObject, tasks |-> EmptyBag,
   callback |-> NoCallback, started |-> FALSE,
   switched |-> [address \in {"7c:c6:b6:65:8a:0d", "38:39:8f:8b:d2:29"} |-> 0]]

VersionError ==
  "This plugin requires Matterbridge version >= \"3.3.0\". Please update Matterbridge to the latest version in the frontend."

PlatformSuper ==
  /\ platform.pc = "new"
  /\ platform' = [platform EXCEPT !.pc = "verify"]
  /\ UNCHANGED <<isScanning, noble, bthomePeripherals, adapter, calls, history>>
  /\ UNCHANGED decoderVars

\* module.ts lines 71-75; verify is verifyMatterbridgeVersion: undefined, not
\* a function, or the result of verifyMatterbridgeVersion('3.3.0')
VersionChecks == {"undefined", "not a function", "false", "true"}

PlatformVerify_Late ==
  /\ platform.pc = "verify"
  /\ platform' = IF platform.verify # "true"
                 THEN [platform EXCEPT !.pc = "threw", !.error = VersionError,
                                       !.handlers = {"discovered", "update"}]
                 ELSE [platform EXCEPT !.pc = "register"]
  /\ UNCHANGED <<isScanning, noble, bthomePeripherals, adapter, calls, history>>
  /\ UNCHANGED decoderVars
PlatformVerify ==
  /\ platform.pc = "verify"
  /\ platform' = IF platform.verify # "true"
                 THEN [platform EXCEPT !.pc = "threw", !.error = VersionError]
                 ELSE [platform EXCEPT !.pc = "register"]
  /\ UNCHANGED <<isScanning, noble, bthomePeripherals, adapter, calls, history>>
  /\ UNCHANGED decoderVars

\* module.ts lines 77-96: btHome.on('discovered', ...), btHome.on('update', ...)
PlatformRegister ==
  /\ platform.pc = "register"
  /\ platform' = [platform EXCEPT !.pc = "constructed",
                                  !.handlers = @ \cup {"discovered", "update"}]
  /\ UNCHANGED <<isScanning, noble, bthomePeripherals, adapter, calls, history>>
  /\ UNCHANGED decoderVars

\* ---------------------------------------------- callbacks of the Platform
\* Matterbridge calls a callback when the last one has settled: onStart on
\* a plugin that is not started, the others on one that is
Callable(started) ==
  /\ platform.pc = "constructed"
  /\ platform.handlers # {}
  /\ platform.callback.pc \in {"idle", "done"}
  /\ platform.started = started

\* the calls of start() and stop() the callback awaits have settled
Awaited == \A i \in DOMAIN calls : ~Pending(calls[i])

\* module.ts lines 99-106: onStart up to loadPeripherals
OnStart ==
  /\ Callable(FALSE)
  /\ platform' = [platform EXCEPT !.callback = Callback("onStart", "ready", ""),
                                  !.started = TRUE]
  /\ UNCHANGED <<isScanning, noble, bthomePeripherals, adapter, calls, history>>
  /\ UNCHANGED decoderVars

\* the devices of a list or a map, in the order they were put in
AddressOrder == <<"7c:c6:b6:65:8a:0d", "38:39:8f:8b:d2:29">>
ListOf(storage) == SelectSeq(AddressOrder, LAMBDA mac : mac \in DOMAIN storage)

\* module.ts lines 280-283 and 193-234: loadPeripherals goes to the first
\* of rest; addDevice(peripheral) is suspended at registerDevice.  After the
\* last, line 112: btHome.start() is to be called.
LoadFrom(pl, rest) ==
  IF rest = << >>
  THEN [pl EXCEPT !.callback.pc = "scan", !.callback.rest = << >>]
  ELSE [pl EXCEPT !.callback.pc = "register",
                  !.callback.rest = rest,
                  !.callback.device = pl.storage[Head(rest)],
                  !.callback.children = Children(pl.storage[Head(rest)])]

\* module.ts lines 276-279: context.get('bthomePeripherals', [])
OnStartLoad ==
  /\ platform.callback.name = "onStart" /\ platform.callback.pc = "ready"
  /\ platform' = LoadFrom(platform, ListOf(platform.storage))
  /\ UNCHANGED <<isScanning, noble, bthomePeripherals, adapter, calls, history>>
  /\ UNCHANGED decoderVars

\* updateDevice(peripheral) has run up to run: it is suspended, or addDevice
\* returns and line 283 sets the peripheral in the map of the scanner
Loaded(pl, mac, run) ==
  IF run.awaiting # ""
  THEN /\ platform' = [pl EXCEPT !.callback.pc = "update",
                                 !.callback.device = run.device,
                                 !.callback.awaiting = run.awaiting,
                                 !.callback.properties = run.rest,
                                 !.switched = [@ EXCEPT ![mac] = Triggered(@, run.triggered)]]
       /\ UNCHANGED bthomePeripherals
  ELSE /\ platform' = LoadFrom([pl EXCEPT !.callback.awaiting = "",
                                          !.callback.properties = << >>],
                               Tail(pl.callback.rest))
       /\ bthomePeripherals' = Put(bthomePeripherals, mac, run.device)

\* module.ts lines 234-236: registerDevice settles, the device is bridged and
\* updateDevice(device) called
LoadRegistered ==
  /\ platform.callback.name = "onStart" /\ platform.callback.pc = "register"
  /\ Loaded([platform EXCEPT !.bridgedDevices =
                                Put(@, Head(platform.callback.rest), platform.callback.children)],
            Head(platform.callback.rest),
            updateLoop(platform.callback.device, platform.callback.children,
                       Properties(platform.callback.device.data)))
  /\ UNCHANGED <<isScanning, noble, adapter, calls, history>>
  /\ UNCHANGED decoderVars

\* the await of updateDevice(peripheral) settles
LoadUpdated ==
  /\ platform.callback.name = "onStart" /\ platform.callback.pc = "update"
  /\ Loaded(platform, Head(platform.callback.rest),
            resumeLoop(platform.callback.device, platform.callback.children,
                       platform.callback.awaiting, platform.callback.properties))
  /\ UNCHANGED <<isScanning, noble, adapter, calls, history>>
  /\ UNCHANGED decoderVars

\* module.ts line 112: await this.btHome.start()
OnStartScan ==
  /\ platform.callback.name = "onStart" /\ platform.callback.pc = "scan"
  /\ StartCall
  /\ platform' = [platform EXCEPT !.callback.pc = "starting"]
  /\ UNCHANGED bthomePeripherals

\* onStart returns once start() has settled
OnStartDone ==
  /\ platform.callback.name = "onStart" /\ platform.callback.pc = "starting"
  /\ Awaited
  /\ platform' = [platform EXCEPT !.callback.pc = "done"]
  /\ UNCHANGED <<isScanning, noble, bthomePeripherals, adapter, calls, history>>
  /\ UNCHANGED decoderVars

\* module.ts lines 115-121: onConfigure calls updateDevice(device) on every
\* device of the map and awaits none of the calls
RECURSIVE UpdateAll(_, _)
UpdateAll(hs, macs) ==
  IF macs = << >> THEN hs ELSE UpdateAll(updateDevice(hs, Head(macs)), Tail(macs))

OnConfigure ==
  /\ Callable(TRUE)
  /\ Handled(UpdateAll([platform |-> [platform EXCEPT
                                        !.callback = Callback("onConfigure", "done", "")],
                        peripherals |-> bthomePeripherals],
                       ListOf(bthomePeripherals)))
  /\ UNCHANGED <<isScanning, noble, adapter, calls, history>>
  /\ UNCHANGED decoderVars

\* module.ts lines 123-131: onAction('delete', value) with value in lower
\* case and trimmed; a mac that is not known is refused, else stop() is
\* called and awaited
OnActionDelete(value) ==
  /\ Callable(TRUE)
  /\ IF value \notin DOMAIN bthomePeripherals
     THEN /\ platform' = [platform EXCEPT !.callback = Callback("delete", "idle", value)]
          /\ UNCHANGED <<isScanning, noble, adapter, calls, history>>
          /\ UNCHANGED decoderVars
     ELSE /\ StopCall
          /\ platform' = [platform EXCEPT !.callback = Callback("delete", "stopping", value)]
  /\ UNCHANGED bthomePeripherals

\* module.ts lines 132-133: stop() has settled; the mac is deleted from the
\* map and savePeripherals() called
DeleteStopped ==
  /\ platform.callback.name = "delete" /\ platform.callback.pc = "stopping"
  /\ Awaited
  /\ bthomePeripherals' = Delete(bthomePeripherals, platform.callback.value)
  /\ platform' = savePeripherals([platform EXCEPT !.callback.pc = "saving"],
                                 bthomePeripherals')
  /\ UNCHANGED <<isScanning, noble, adapter, calls, history>>
  /\ UNCHANGED decoderVars

\* module.ts lines 134-136: the list is saved; the device is unregistered
\* and no longer bridged
DeleteSaved ==
  /\ platform.callback.name = "delete" /\ platform.callback.pc = "saving"
  /\ platform' = [platform EXCEPT !.callback.pc = "done",
                                  !.bridgedDevices = Delete(@, platform.callback.value)]
  /\ UNCHANGED <<isScanning, noble, bthomePeripherals, adapter, calls, history>>
  /\ UNCHANGED decoderVars

\* module.ts lines 139-140: onAction('reset'), stop() is called and awaited
OnActionReset ==
  /\ Callable(TRUE)
  /\ StopCall
  /\ platform' = [platform EXCEPT !.callback = Callback("reset", "stopping", "")]
  /\ UNCHANGED bthomePeripherals

\* module.ts lines 141-142: the map is cleared and savePeripherals() called
ResetStopped ==
  /\ platform.callback.name = "reset" /\ platform.callback.pc = "stopping"
  /\ Awaited
  /\ bthomePeripherals' = EmptyObject
  /\ platform' = savePeripherals([platform EXCEPT !.callback.pc = "saving"], EmptyObject)
  /\ UNCHANGED <<isScanning, noble, adapter, calls, history>>
  /\ UNCHANGED decoderVars

\* module.ts lines 143-144: every device is unregistered, none is bridged
ResetSaved ==
  /\ platform.callback.name = "reset" /\ platform.callback.pc = "saving"
  /\ platform' = [platform EXCEPT !.callback.pc = "done", !.bridgedDevices = EmptyObject]
  /\ UNCHANGED <<isScanning, noble, bthomePeripherals, adapter, calls, history>>
  /\ UNCHANGED decoderVars

\* module.ts lines 154-156: onShutdown calls savePeripherals()
OnShutdown ==
  /\ Callable(TRUE)
  /\ platform' = savePeripherals([platform EXCEPT
                                    !.callback = Callback("onShutdown", "saving", ""),
                                    !.started = FALSE],
                                 bthomePeripherals)
  /\ UNCHANGED <<isScanning, noble, bthomePeripherals, adapter, calls, history>>
  /\ UNCHANGED decoderVars

\* module.ts lines 157-162: the list is saved; stop() is called and awaited
ShutdownSaved_SavesAfterStop ==
  /\ platform.callback.name = "onShutdown" /\ platform.callback.pc = "saving"
  /\ StopCall
  /\ platform' = savePeripherals([platform EXCEPT !.callback.pc = "stopping"], EmptyObject)
  /\ UNCHANGED bthomePeripherals
ShutdownSaved ==
  /\ platform.callback.name = "onShutdown" /\ platform.callback.pc = "saving"
  /\ StopCall
  /\ platform' = [platform EXCEPT !.callback.pc = "stopping"]
  /\ UNCHANGED bthomePeripherals

\* module.ts lines 163-168: stop() has settled; after super.onShutdown the
\* devices are unregistered if the configuration says so, and none is bridged
ShutdownStopped ==
  /\ platform.callback.name = "onShutdown" /\ platform.callback.pc = "stopping"
  /\ Awaited
  /\ platform' = [platform EXCEPT !.callback.pc = "done", !.bridgedDevices = EmptyObject]
  /\ UNCHANGED <<isScanning, noble, bthomePeripherals, adapter, calls, history>>
  /\ UNCHANGED decoderVars

\* ------------------------------------------------- the suspended handlers
\* the suspended handlers without one that goes on
Without(tasks, task) == tasks (-) SetToBag({task})

\* module.ts lines 234-236: registerDevice settles in the addDevice of a
\* 'discovered' listener; the device is bridged and updateDevice(device) called
Registered(hs, task) ==
  updateDevice([hs EXCEPT !.platform.bridgedDevices = Put(@, task.mac, task.children)],
               task.mac)

\* the await of an updateDevice settles and its loop goes on; the device is
\* the one of the map, and nothing more is seen of a device that has left it
Resumed(hs, task) ==
  IF task.mac \notin DOMAIN hs.peripherals THEN hs
  ELSE Updated(hs, task.mac, task.children,
               resumeLoop(hs.peripherals[task.mac], task.children, task.kind, task.rest))

Resume(task) ==
  /\ Handled(IF task.kind = "register"
             THEN Registered([platform |-> [platform EXCEPT !.tasks = Without(@, task)],
                              peripherals |-> bthomePeripherals], task)
             ELSE Resumed([platform |-> [platform EXCEPT !.tasks = Without(@, task)],
                           peripherals |-> bthomePeripherals], task))
  /\ UNCHANGED <<isScanning, noble, adapter, calls, history>>
  /\ UNCHANGED decoderVars

\* the scanner of a Platform that is not made
NoScanner ==
  /\ platform = NotConstructed
  /\ isScanning = FALSE
  /\ noble = "undefined"
  /\ bthomePeripherals = EmptyObject
  /\ adapter = [state |-> "unknown", discover |-> 0]
  /\ calls = NoCalls
  /\ history = NoHistory

\* --------------------------------------------------- inputs of the scanner
\* the states of the adapter
AdapterStates == {"unknown", "poweredOff", "poweredOn", "unsupported", "unauthorized"}

\* two peripherals, one that advertises a local name and one that does not
Addresses == {"7c:c6:b6:65:8a:0d", "38:39:8f:8b:d2:29"}
LocalNameOf(address) ==
  IF address = "7c:c6:b6:65:8a:0d" THEN Name("SBHT-003C", 9) ELSE Undefined

Peripheral(address, serviceData, manufacturerData) ==
  [address |-> address, rssi |-> 0 - 60, localName |-> LocalNameOf(address),
   serviceData |-> serviceData, manufacturerData |-> manufacturerData]

\* service data with a battery field, with a battery field cut short, with
\* a packet id and a button press
BatteryData == <<ServiceEntry("fcd2", <<PlainHeader, 1, 100>>)>>
CutShortData == <<ServiceEntry("fcd2", <<PlainHeader, 1>>)>>
ButtonData == <<ServiceEntry("180f", <<100>>), ServiceEntry("fcd2", <<PlainHeader + 4, 0, 7, 58, 1>>)>>

\* Shelly manufacturer data with model id 3, without model id, cut short in
\* the model block; Apple manufacturer data
ModelBlockData == <<169, 11, 11, 3, 0>> \o AddressBlock
FlagBlockData == <<169, 11>> \o AddressBlock \o <<1, 21, 0>>
CutShortBlockData == <<169, 11>> \o AddressBlock \o <<11>>
AppleData == <<APPLE, 0, 2, 21>>

\* the advertisements of the first peripheral, and those of the second
Peripherals ==
  {Peripheral("7c:c6:b6:65:8a:0d", s, m) :
     s \in {BatteryData, CutShortData}, m \in {<< >>, AppleData}}
  \cup {Peripheral("7c:c6:b6:65:8a:0d", s, m) :
          s \in {<< >>, ButtonData}, m \in {ModelBlockData, FlagBlockData}}
  \cup {Peripheral("7c:c6:b6:65:8a:0d", << >>, CutShortBlockData)}
  \cup {Peripheral("38:39:8f:8b:d2:29", s, m) :
          s \in {<< >>, BatteryData}, m \in {<< >>, ModelBlockData}}

\* ============================================================ specifications
\* decodeBTHome called once on each input
Init ==
  /\ NoScanner
  /\ buf \in BTHomeInputs
  /\ bt = NotCalled
  /\ md = << >>
  /\ input = BufferInput(<< >>)
  /\ sh = ShellyNotCalled
  /\ seen = {}

Next == BTCall \/ BTIterate \/ BTReturn

Spec == Init /\ [][Next]_vars

\* decodeShellyManufacturerData called once on each input
InitShelly ==
  /\ NoScanner
  /\ buf = << >>
  /\ bt = NotCalled
  /\ md \in ManufacturerData \cup FieldData
  /\ input \in IF md \in ManufacturerData THEN ShellyInputs(md) ELSE PlainInputs(md)
  /\ sh = ShellyNotCalled
  /\ seen = {}

NextShelly == ShellyCall \/ ShellyIterate \/ ShellyReturn

SpecShelly == InitShelly /\ [][NextShelly]_vars

\* ------------------------------------------------------- repeated calls
\* the service data and manufacturer data of successive advertisements
CallBuffers ==
  {<< >>, <<PlainHeader, 1>>, <<PlainHeader, 1, 100>>, <<PlainHeader, 1, 5, 1, 6>>,
   <<PlainHeader, 2, 206, 255, 1, 100>>, <<PlainHeader, 255, 1>>}
CallData ==
  {<<169, 11>>, <<11, 169>> \o AddressBlock \o <<1, 21, 0>>,
   <<169, 11, 1, 21, 0>> \o AddressBlock, <<169, 11, 11, 3, 0>> \o AddressBlock \o <<1>>}

\* the caller decodes the service data of the next advertisement: the locals
\* of the finished call are left behind
BTAgain ==
  /\ bt.pc \in {"returned", "threw"}
  /\ buf' \in CallBuffers
  /\ bt' = [bt EXCEPT !.pc = "idle"]
  /\ seen' = seen \cup {bt.ids[i] : i \in DOMAIN bt.ids}
  /\ UNCHANGED <<md, input, sh>> /\ UNCHANGED scannerVars

\* the caller decodes the manufacturer data of the next advertisement
ShellyAgain ==
  /\ sh.pc \in {"null", "returned", "threw"}
  /\ md' \in CallData
  /\ input' \in PlainInputs(md')
  /\ sh' = [sh EXCEPT !.pc = "idle"]
  /\ UNCHANGED <<buf, bt, seen>> /\ UNCHANGED scannerVars

\* both decoders called again and again, in any order
InitCalls ==
  /\ NoScanner
  /\ buf \in CallBuffers
  /\ bt = NotCalled
  /\ md \in CallData
  /\ input \in PlainInputs(md)
  /\ sh = ShellyNotCalled
  /\ seen = {}

NextCalls ==
  \/ BTCall \/ BTIterate \/ BTReturn \/ BTAgain
  \/ ShellyCall \/ ShellyIterate \/ ShellyReturn \/ ShellyAgain

SpecCalls == InitCalls /\ [][NextCalls]_vars

\* ------------------------------------------------------- the two loops
\* each decoder called once, on the service data or on the manufacturer
\* data of an advertisement; a call, once started, runs to its end
\* Loop inputs: a header and up to MaxLoop bytes that are ids, length bytes
\* (0, 1, 83, 84, 255) or no ids; the company id, an address block and up
\* to MaxLoop bytes that are block types or payload
MaxLoop == 4
LoopBytes == {0, 1, 83, 84, 255}
LoopBuffers == {<<PlainHeader>> \o b : b \in SeqsUpTo(LoopBytes, MaxLoop)}
LoopBlockBytes == {0, 1, 10, 11, 255}
LoopData ==
  {<<169, 11>> \o AddressBlock \o b : b \in SeqsUpTo(LoopBlockBytes, MaxLoop)}

InitLoops ==
  /\ NoScanner
  /\ \/ /\ buf \in LoopBuffers
        /\ md = << >>
     \/ /\ buf = << >>
        /\ md \in LoopData \cup BlockTypeData
  /\ input = BufferInput(md)
  /\ bt = NotCalled
  /\ sh = ShellyNotCalled
  /\ seen = {}

NextLoops ==
  \/ BTCall \/ BTIterate \/ BTReturn
  \/ ShellyCall \/ ShellyIterate \/ ShellyReturn

SpecLoops ==
  /\ InitLoops
  /\ [][NextLoops]_vars
  /\ WF_vars(BTCall \/ BTIterate \/ BTReturn)
  /\ WF_vars(ShellyCall \/ ShellyIterate \/ ShellyReturn)

\* ------------------------------------------------- Platform and scanner
\* a Platform is constructed; start() and stop() of its scanner are called
\* in any order and overlap at their awaits, while the adapter changes state
InitScanner ==
  /\ buf = << >>
  /\ bt = NotCalled
  /\ md = << >>
  /\ input = BufferInput(<< >>)
  /\ sh = ShellyNotCalled
  /\ seen = {}
  /\ platform \in {[NotConstructed EXCEPT !.verify = v] : v \in VersionChecks}
  /\ isScanning = FALSE
  /\ noble = "undefined"
  /\ bthomePeripherals = EmptyObject
  /\ adapter \in {[state |-> s, discover |-> 0] : s \in AdapterStates}
  /\ calls = NoCalls
  /\ history = NoHistory

NextScanner ==
  \/ PlatformSuper \/ PlatformVerify \/ PlatformRegister
  \/ Start \/ Stop
  \/ \E i \in DOMAIN calls : StartImported(i)
  \/ \E i \in DOMAIN calls : Timeout(i)
  \/ \E i \in DOMAIN calls : StartPowered(i)
  \/ \E i \in DOMAIN calls : StartScanned(i)
  \/ \E i \in DOMAIN calls : StopSettled(i)
  \/ \E state \in AdapterStates : StateChange(state)

SpecScanner == InitScanner /\ [][NextScanner]_vars

\* ------------------------------------------------------- advertisements
\* a scanner of its own that no Platform listens to (as BTHome.test.ts makes
\* it), the adapter powered on: start() and stop() are called in any order,
\* each awaited before the next call (as module.ts does at lines 112, 131,
\* 140, 162), while advertisements come in
StartAwaited == (\A i \in DOMAIN calls : ~Pending(calls[i])) /\ Start
StopAwaited == (\A i \in DOMAIN calls : ~Pending(calls[i])) /\ Stop

InitDiscovery ==
  /\ buf = << >>
  /\ bt = NotCalled
  /\ md = << >>
  /\ input = BufferInput(<< >>)
  /\ sh = ShellyNotCalled
  /\ seen = {}
  /\ platform = [NotConstructed EXCEPT !.pc = "constructed"]
  /\ isScanning = FALSE
  /\ noble = "undefined"
  /\ bthomePeripherals = EmptyObject
  /\ adapter = [state |-> "poweredOn", discover |-> 0]
  /\ calls = NoCalls
  /\ history = NoHistory

NextDiscovery ==
  \/ StartAwaited \/ StopAwaited
  \/ \E i \in DOMAIN calls : StartImported(i)
  \/ \E i \in DOMAIN calls : StartPowered(i)
  \/ \E i \in DOMAIN calls : StartScanned(i)
  \/ \E i \in DOMAIN calls : StopSettled(i)
  \/ \E p \in Peripherals : Discover(p)

SpecDiscovery == InitDiscovery /\ [][NextDiscovery]_vars

\* -------------------------------------------------------------- Platform
\* a constructed Platform, the adapter powered on: Matterbridge calls
\* onStart, onConfigure, onAction and onShutdown one after the other, while advertisements
\* come in and the handlers of their events go on at their awaits
PlatformPeripherals ==
  {Peripheral("7c:c6:b6:65:8a:0d", ButtonData, ModelBlockData),
   Peripheral("38:39:8f:8b:d2:29", BatteryData, << >>)}

InitPlatform ==
  /\ buf = << >>
  /\ bt = NotCalled
  /\ md = << >>
  /\ input = BufferInput(<< >>)
  /\ sh = ShellyNotCalled
  /\ seen = {}
  /\ platform = [NotConstructed EXCEPT !.pc = "constructed",
                                       !.handlers = {"discovered", "update"}]
  /\ isScanning = FALSE
  /\ noble = "undefined"
  /\ bthomePeripherals = EmptyObject
  /\ adapter = [state |-> "poweredOn", discover |-> 0]
  /\ calls = NoCalls
  /\ history = NoHistory

NextPlatform ==
  \/ OnStart \/ OnStartLoad \/ LoadRegistered \/ LoadUpdated \/ OnStartScan \/ OnStartDone
  \/ OnConfigure
  \/ \E value \in Addresses : OnActionDelete(value)
  \/ DeleteStopped \/ DeleteSaved
  \/ OnActionReset \/ ResetStopped \/ ResetSaved
  \/ OnShutdown \/ ShutdownSaved \/ ShutdownStopped
  \/ \E i \in DOMAIN calls : StartImported(i)
  \/ \E i \in DOMAIN calls : StartPowered(i)
  \/ \E i \in DOMAIN calls : StartScanned(i)
  \/ \E i \in DOMAIN calls : StopSettled(i)
  \/ \E p \in PlatformPeripherals : Discover(p)
  \/ \E task \in BagToSet(platform.tasks) : Resume(task)

SpecPlatform == InitPlatform /\ [][NextPlatform]_vars

TypeOK == bt.pc \in {"idle", "loop", "break", "returned", "threw"}
TypeOKShelly == sh.pc \in {"idle", "loop", "null", "returned", "threw"}

\* ================================================================== claims
\* the call of decodeBTHome has returned its result
BTReturned == bt.pc = "returned"

\* the byte offset of the i-th id of a stream of known fields: 1 for the
\* first, then the offset of the previous id + 1 + the width of its value
\* (for a length-prefixed field, the length byte and the bytes it counts)
RECURSIVE IdOffset(_, _, _)
IdOffset(b, ids, i) ==
  IF i = 1 THEN 1
  ELSE LET p == IdOffset(b, ids, i - 1)
           e == BTHOME_SPEC[ids[i - 1]]
       IN  p + 1 + (IF e.bytes # null THEN e.bytes ELSE 1 + At(b, p + 1))

\* the buffer is a header followed by complete known fields and nothing else
KnownFieldsOnly ==
  /\ BTReturned
  /\ bt.unknown = << >>
  /\ bt.offset = Len(buf)

\* the value of the i-th field of the buffer, decoded on its own
FieldValue(i) ==
  DecodeField(buf, BTHOME_SPEC[bt.ids[i]], IdOffset(buf, bt.ids, i) + 1).value

\* C1: for every buffer of at least 1 byte decodeBTHome returns a result; it
\* raises no error, also when the buffer ends inside the last field, except
\* the error of a spec-table entry without parser and without bytes.
C1_RaisesOnlyConfigurationError ==
  (Len(buf) >= 1 /\ bt.pc = "threw") => bt.error = "missing bytes"

\* C2: when an id occurs exactly twice in a buffer of known fields, readings
\* has the key name:1 with the value of the first occurrence of that id and
\* the key name:2 with the value of the second, whatever other known fields
\* (also of another id with the same name) the buffer holds.
C2_TwoOccurrencesKeepBothValues ==
  KnownFieldsOnly =>
    \A i, j \in DOMAIN bt.ids :
      (i < j /\ bt.ids[i] = bt.ids[j] /\ Count(bt.ids, bt.ids[i]) = 2) =>
        LET name == BTHOME_SPEC[bt.ids[i]].name
        IN  /\ (name \o ":1") \in DOMAIN bt.readings
            /\ (name \o ":2") \in DOMAIN bt.readings
            /\ bt.readings[name \o ":1"] = FieldValue(i)
            /\ bt.readings[name \o ":2"] = FieldValue(j)

\* the number of decimal places of a scale fn/fd: 0 for 1, 2 for 0.01 and 0.35
Decimals(fn, fd) ==
  CHOOSE d \in 0..MaxFractionDigits :
    /\ (fn * Pow(10, d)) % fd = 0
    /\ \A c \in 0..(d - 1) : (fn * Pow(10, c)) % fd # 0

\* two decimals m / 10^d denote the same number
SameNumber(a, b) ==
  IF a.d = b.d THEN a.m = b.m
  ELSE a.m * Pow(10, b.d) = b.m * Pow(10, a.d)

\* the buffer is [header, id, value bytes] of one entry without parser
SingleNumericField ==
  /\ Len(buf) >= 2
  /\ buf[2] \in NumericIds
  /\ Len(buf) = 2 + BTHOME_SPEC[buf[2]].bytes

\* C3: for an entry without parser and the buffer [header, id, little-endian
\* bytes of raw], readings[name] is raw * scale with the decimal places of
\* the scale, so that no decimal digit of raw * scale is lost.
C3_ReadingIsRawTimesScale ==
  (BTReturned /\ SingleNumericField) =>
    LET e == BTHOME_SPEC[buf[2]]
        raw == IF e.signed THEN ReadIntLE(buf, 2, e.bytes) ELSE ReadUIntLE(buf, 2, e.bytes)
        d == Decimals(e.fn, e.fd)
        exact == Num(raw * ((e.fn * Pow(10, d)) \div e.fd), d)
    IN  /\ e.name \in DOMAIN bt.readings
        /\ bt.readings[e.name].t = "number"
        /\ SameNumber(bt.readings[e.name], exact)

\* C5: for id 0xf2 the payload bytes are [patch, minor, major] and the reading
\* firmwareVersionShort is "major.minor.patch": [1, 2, 3] gives "3.2.1".
C5_ShortFirmwareIsMajorMinorPatch ==
  (BTReturned /\ Len(buf) = 5 /\ buf[2] = 242) =>
    LET patch == buf[3]
        minor == buf[4]
        major == buf[5]
    IN  /\ "firmwareVersionShort" \in DOMAIN bt.readings
        /\ bt.readings["firmwareVersionShort"] =
             Str(ToString(major) \o "." \o ToString(minor) \o "." \o ToString(patch))

\* C4: when an id without entry in BTHOME_SPEC is read at position k, one
\* entry describing the bytes from k to the end is appended to unknown and
\* decoding stops: the readings are those decoded from the bytes before k,
\* and they are empty when k is the first position after the header.
C4_UnknownIdStopsDecoding ==
  /\ \A i \in DOMAIN bt.ids :
       bt.ids[i] \notin DOMAIN BTHOME_SPEC =>
         (i = Len(bt.ids) /\ bt.pc \in {"break", "returned"})
  /\ (bt.ids # << >> /\ bt.ids[Len(bt.ids)] \notin DOMAIN BTHOME_SPEC) =>
       LET k == bt.offset - 1
           before == SubSeq(buf, 1, k)
       IN  /\ At(buf, k) = bt.ids[Len(bt.ids)]
           /\ bt.unknown =
                <<"0x" \o HexOf(At(buf, k)) \o " -> 0x" \o ToHex(SubSeq(buf, k + 1, Len(buf)))>>
           /\ bt.readings = RunLoop(before, Entry(before)).readings
           /\ (k = 1 => bt.readings = EmptyObject)

\* an unknown id was read after a decoded field and before further bytes
C4_Witness ==
  /\ BTReturned
  /\ bt.unknown # << >>
  /\ bt.readings # EmptyObject
  /\ bt.offset < Len(buf)

\* the call of decodeShellyManufacturerData is over
ShellyDone == sh.pc \in {"null", "returned", "threw"}

\* the first two bytes read as a little-endian 16-bit integer
CompanyIdOf(b) == b[1] + 256 * b[2]

\* every block that starts at or after off has all its payload bytes
RECURSIVE BlocksComplete(_, _)
BlocksComplete(b, off) ==
  IF off >= Len(b) THEN TRUE
  ELSE CASE At(b, off) \in {1, 11} -> off + 3 <= Len(b) /\ BlocksComplete(b, off + 3)
         [] At(b, off) = 10 -> off + 7 <= Len(b) /\ BlocksComplete(b, off + 7)
         [] OTHER -> TRUE

\* C6: decodeShellyManufacturerData never raises an error; for every input it
\* returns null or a result, also when a block is cut short by the end of a
\* buffer of at least 10 bytes with the right company id.
C6_ShellyNeverRaises == sh.pc # "threw"

\* C7: for a byte buffer shorter than 10 bytes the result is null, whatever
\* its content; for a byte buffer of 10 or more bytes that starts with the
\* company id 0x0ba9 and whose blocks are complete it is not null.
C7_NullIffShorterThan10 ==
  (ShellyDone /\ input.kind = "buffer") =>
    /\ Len(input.data) < 10 => sh.pc = "null"
    /\ (/\ Len(input.data) >= 10
        /\ CompanyIdOf(input.data) = 2985
        /\ BlocksComplete(input.data, 2)) => sh.pc = "returned"

\* a buffer of 9 bytes that starts with the company id
C7_Witness ==
  /\ ShellyDone
  /\ input.kind = "buffer"
  /\ Len(input.data) = 9
  /\ CompanyIdOf(input.data) = 2985
  /\ sh.pc = "null"

\* C8: a hex string, with any whitespace inserted, gives the same outcome as
\* the byte buffer it denotes; a hex string of fewer than 10 bytes gives null.
C8_HexStringSameAsBuffer ==
  (ShellyDone /\ input.kind = "string") =>
    /\ ShellyOutcome(sh) = decodeShellyManufacturerData(BufferInput(md))
    /\ Len(md) < 10 => sh.pc = "null"

\* C9: the result is null for every input whose first two bytes, little-endian,
\* differ from 0x0ba9; every result that is not null has companyId 0x0ba9.
C9_NullUnlessCompanyId ==
  /\ (ShellyDone /\ Len(md) >= 2 /\ CompanyIdOf(md) # 2985) => sh.pc = "null"
  /\ sh.pc \in {"loop", "returned"} => sh.result.companyId = 2985

\* a buffer of 10 or more bytes with another company id
C9_Witness ==
  /\ ShellyDone
  /\ input.kind = "buffer"
  /\ Len(md) >= 10
  /\ CompanyIdOf(md) # 2985
  /\ sh.pc = "null"

\* the header with bits 1, 3 and 4 cleared
WithoutBits134(h) ==
  h - 2 * ((h \div 2) % 2) - 8 * ((h \div 8) % 2) - 16 * ((h \div 16) % 2)

\* C10: version is bits 5-7 of the header byte, encrypted is bit 0, trigger
\* is bit 2; bits 1, 3 and 4 of the header change no field of the result.
C10_HeaderBits ==
  (bt.pc \in {"returned", "threw"} /\ Len(buf) >= 1) =>
    LET h == buf[1]
    IN  /\ BTReturned =>
             /\ bt.version = h \div 32
             /\ bt.encrypted = (h % 2 = 1)
             /\ bt.trigger = ((h \div 4) % 2 = 1)
        /\ Outcome(bt) = decodeBTHome(<<WithoutBits134(h)>> \o Tail(buf))

\* header 0b01011110: version 2, trigger, and bits 1, 3 and 4 set
C10_Witness ==
  /\ BTReturned
  /\ buf[1] = 94
  /\ bt.version = 2 /\ bt.trigger /\ ~bt.encrypted
  /\ bt.readings # EmptyObject

\* C11: signed fields are little-endian two's complement and consecutive
\* fields are decoded independently: [0x40, 0x02, 0xce, 0xff, 0x01, 0x64]
\* gives version 2, not encrypted, no trigger, temperature -0.50, battery 100
\* and an empty unknown list; for id 0x02 every payload with the top bit set
\* gives the negative temperature (raw - 65536) x 0.01.
C11_SignedLittleEndian ==
  /\ (BTReturned /\ buf = <<64, 2, 206, 255, 1, 100>>) =>
       Outcome(bt) = [threw |-> FALSE, version |-> 2, encrypted |-> FALSE,
                      trigger |-> FALSE,
                      readings |-> ("temperature" :> Num(-50, 2)) @@ ("battery" :> Num(100, 0)),
                      unknown |-> << >>]
  /\ (bt.ids = <<2>> /\ bt.pc # "threw" /\ buf[4] >= 128) =>
       /\ bt.offset = 4
       /\ DOMAIN bt.readings = {"temperature"}
       /\ bt.readings["temperature"].t = "number"
       /\ bt.readings["temperature"].m < 0
       /\ SameNumber(bt.readings["temperature"], Num(buf[3] + 256 * buf[4] - 65536, 2))
  /\ (BTReturned /\ Len(buf) = 6 /\ buf[2] = 2 /\ buf[5] = 1) =>
       /\ bt.ids = <<2, 1>>
       /\ bt.readings["battery"] = Num(buf[6], 0)
       /\ LET alone == decodeBTHome(SubSeq(buf, 1, 4))
          IN  bt.readings["temperature"] = alone.readings["temperature"]

\* the buffer of the round-trip scenario has been decoded
C11_Witness ==
  /\ BTReturned
  /\ buf = <<64, 2, 206, 255, 1, 100>>
  /\ bt.readings["temperature"] = Num(-50, 2)

\* the press pattern of a button code
ButtonName(c) ==
  CASE c = 0 -> "none"
    [] c = 1 -> "single_press"
    [] c = 2 -> "double_press"
    [] c = 3 -> "triple_press"
    [] c = 4 -> "long_press"
    [] c = 5 -> "long_double_press"
    [] c = 6 -> "long_triple_press"
    [] c \in {128, 254} -> "hold_press"
    [] OTHER -> "unknown"

\* C12: for id 0x3a and every payload byte c, the reading button is the
\* press pattern of c, "unknown" for a c without pattern, and exactly one
\* payload byte is consumed.
C12_ButtonPressPattern ==
  /\ (bt.ids = <<58>> /\ bt.pc # "threw") =>
       /\ bt.readings = ("button" :> Str(ButtonName(buf[3])))
       /\ bt.offset = 3
  /\ (BTReturned /\ Len(buf) = 5 /\ buf[2] = 58 /\ buf[4] = 1) =>
       /\ bt.ids = <<58, 1>>
       /\ bt.readings["battery"] = Num(buf[5], 0)

\* the code 0x99, which has no pattern, has been decoded before a battery field
C12_Witness ==
  /\ BTReturned
  /\ buf = <<64, 58, 153, 1, 100>>
  /\ bt.readings["button"] = Str("unknown")

\* C13: for the ids 0x53 (text) and 0x54 (raw) followed by a length byte L and
\* at least L further bytes, the reading is built from exactly those L bytes
\* (text: the bytes as characters, raw: their hex digits), without the length
\* byte and without any byte after them; the next id is read after them.
C13_LengthPrefixedPayload ==
  /\ (/\ Len(bt.ids) = 1
      /\ bt.ids[1] \in {83, 84}
      /\ Len(buf) >= 3
      /\ Len(buf) >= 3 + buf[3]) =>
       LET L == buf[3]
           payload == SubSeq(buf, 4, 3 + L)
       IN  /\ bt.pc # "threw"
           /\ bt.offset = 3 + L
           /\ bt.ids[1] = 83 => bt.readings = ("text" :> Str(Utf8(payload)))
           /\ bt.ids[1] = 84 => bt.readings = ("raw" :> Str(ToHex(payload)))
           /\ (Len(buf) >= 8 /\ SubSeq(buf, 2, 8) = <<83, 5, 104, 101, 108, 108, 111>>) =>
                bt.readings["text"] = Str("hello")
           /\ (Len(buf) >= 5 /\ SubSeq(buf, 2, 5) = <<84, 2, 104, 101>>) =>
                bt.readings["raw"] = Str("6865")
  /\ (/\ BTReturned
      /\ Len(buf) >= 3
      /\ buf[2] \in {83, 84}
      /\ Len(buf) = 3 + buf[3] + 2
      /\ buf[Len(buf) - 1] = 1) =>
       /\ bt.ids = <<buf[2], 1>>
       /\ bt.readings["battery"] = Num(buf[Len(buf)], 0)

\* the text hello has been decoded before a battery field
C13_Witness ==
  /\ BTReturned
  /\ buf = <<64, 83, 5, 104, 101, 108, 108, 111, 1, 100>>
  /\ bt.readings["text"] = Str("hello")
  /\ bt.readings["battery"] = Num(100, 0)

\* the state of the loop of decodeShellyManufacturerData on entry, for a
\* buffer that starts with the company id
ShellyLoopStart(b) ==
  [pc |-> "loop", buf |-> b, offset |-> 2, result |-> [companyId |-> 2985], error |-> ""]

\* the offset of the first block-type byte that is none of 0x01, 0x0b, 0x0a,
\* walking the blocks from off (3 bytes for flags and model, 7 for the
\* address); the length of the buffer when there is none
RECURSIVE StopOffset(_, _)
StopOffset(b, off) ==
  IF off >= Len(b) THEN Len(b)
  ELSE CASE At(b, off) \in {1, 11} -> StopOffset(b, off + 3)
         [] At(b, off) = 10 -> StopOffset(b, off + 7)
         [] OTHER -> off

\* C14: when a block-type byte other than 0x01, 0x0b and 0x0a is read,
\* parsing stops: the result is the one of the blocks before it, and no
\* byte after the type byte influences it.
C14_UnknownBlockStopsParsing ==
  /\ (sh.pc = "returned" /\ StopOffset(sh.buf, 2) < Len(sh.buf)) =>
       LET k == StopOffset(sh.buf, 2)
       IN  sh.result = ShellyRunLoop(ShellyLoopStart(SubSeq(sh.buf, 1, k))).result
  /\ (sh.pc = "loop" /\ sh.offset < Len(sh.buf)) =>
       StopOffset(sh.buf, 2) >= sh.offset

\* an unknown block type between an address block and a model block
C14_Witness ==
  /\ sh.pc = "returned"
  /\ Len(sh.buf) = 13
  /\ StopOffset(sh.buf, 2) = 9
  /\ sh.buf[11] = 11
  /\ DOMAIN sh.result = {"companyId", "mac"}

\* the buffer with the bits 5-15 of the flags of its first block cleared
WithoutFlagBits5To15(b) ==
  [i \in DOMAIN b |-> IF i = 4 THEN b[4] % 32 ELSE IF i = 5 THEN 0 ELSE b[i]]

\* C15: for a block of type 0x01 with the little-endian value f, the flags
\* are bits 0 to 4 of f in the order discoverable, authEnabled, rpcEnabled,
\* buzzerEnabled, inPairingMode; bits 5-15 change nothing, and the next
\* block type is read after the two bytes of f.
C15_FlagBits ==
  /\ (sh.pc = "loop" /\ sh.offset = 5 /\ sh.buf[3] = 1) =>
       LET f == sh.buf[4] + 256 * sh.buf[5]
       IN  /\ DOMAIN sh.result = {"companyId", "flags"}
           /\ sh.result["flags"] =
                [discoverable |-> (f % 2 = 1),
                 authEnabled |-> ((f \div 2) % 2 = 1),
                 rpcEnabled |-> ((f \div 4) % 2 = 1),
                 buzzerEnabled |-> ((f \div 8) % 2 = 1),
                 inPairingMode |-> ((f \div 16) % 2 = 1)]
  /\ (sh.pc \in {"returned", "threw"} /\ Len(sh.buf) >= 10 /\ sh.buf[3] = 1) =>
       ShellyOutcome(sh) =
         decodeShellyManufacturerData(BufferInput(WithoutFlagBits5To15(sh.buf)))
  /\ (sh.pc = "returned" /\ Len(sh.buf) = 12 /\ sh.buf[3] = 1 /\ sh.buf[6] = 10) =>
       DOMAIN sh.result = {"companyId", "flags", "mac"}

\* the flags 0xffea: authEnabled and buzzerEnabled, and bits 5-15 set
C15_Witness ==
  /\ sh.pc = "returned"
  /\ Len(sh.buf) = 12
  /\ SubSeq(sh.buf, 3, 5) = <<1, 234, 255>>
  /\ sh.result["flags"] =
       [discoverable |-> FALSE, authEnabled |-> TRUE, rpcEnabled |-> FALSE,
        buzzerEnabled |-> TRUE, inPairingMode |-> FALSE]
  /\ "mac" \in DOMAIN sh.result

\* the offset of the type byte of the last address block, walking the blocks
\* from off; last when there is none
RECURSIVE LastAddressBlock(_, _, _)
LastAddressBlock(b, off, last) ==
  IF off >= Len(b) THEN last
  ELSE CASE At(b, off) \in {1, 11} -> LastAddressBlock(b, off + 3, last)
         [] At(b, off) = 10 -> LastAddressBlock(b, off + 7, off)
         [] OTHER -> last

\* C16: whenever the result has a mac, it renders exactly the six bytes that
\* follow the 0x0a block-type byte, in buffer order, as six lowercase
\* two-digit hex pairs joined by colons, never fewer than six pairs.
C16_MacIsSixPairs ==
  (sh.pc = "returned" /\ "mac" \in DOMAIN sh.result) =>
    LET k == LastAddressBlock(sh.buf, 2, -1)
    IN  /\ k >= 2
        /\ k + 7 <= Len(sh.buf)
        /\ sh.result["mac"] =
             Hex2(At(sh.buf, k + 1)) \o ":" \o Hex2(At(sh.buf, k + 2)) \o ":" \o
             Hex2(At(sh.buf, k + 3)) \o ":" \o Hex2(At(sh.buf, k + 4)) \o ":" \o
             Hex2(At(sh.buf, k + 5)) \o ":" \o Hex2(At(sh.buf, k + 6))

\* C17: for a block of type 0x0b with the little-endian value m, modelId is m
\* and the two names are the entries of m in the two name tables; for an m
\* that is in neither table both names are absent, modelId is m, no error is
\* raised and the next block is parsed.  Both tables have the same ids.
C17_ModelIdAndNames ==
  /\ DOMAIN SHELLY_MODEL_SHORT_NAMES = DOMAIN SHELLY_MODEL_LONG_NAMES
  /\ (sh.pc = "loop" /\ sh.offset = 5 /\ sh.buf[3] = 11) =>
       LET m == sh.buf[4] + 256 * sh.buf[5]
       IN  /\ sh.result["modelId"] = m
           /\ m \in DOMAIN SHELLY_MODEL_SHORT_NAMES =>
                /\ DOMAIN sh.result =
                     {"companyId", "modelId", "modelIdShortName", "modelIdLongName"}
                /\ sh.result["modelIdShortName"] = SHELLY_MODEL_SHORT_NAMES[m]
                /\ sh.result["modelIdLongName"] = SHELLY_MODEL_LONG_NAMES[m]
           /\ m \notin DOMAIN SHELLY_MODEL_SHORT_NAMES =>
                DOMAIN sh.result = {"companyId", "modelId"}
           /\ m = 3 =>
                /\ sh.result["modelIdShortName"] = "SBHT-003C"
                /\ sh.result["modelIdLongName"] = "Shelly BLU HT"
  /\ (/\ ShellyDone
      /\ Len(sh.buf) = 12
      /\ CompanyIdOf(sh.buf) = 2985
      /\ sh.buf[3] = 11
      /\ sh.buf[6] = 10) =>
       /\ sh.pc = "returned"
       /\ sh.result["modelId"] = sh.buf[4] + 256 * sh.buf[5]
       /\ "mac" \in DOMAIN sh.result

\* the model id 0x0104, which is in neither table, before an address block
C17_Witness ==
  /\ sh.pc = "returned"
  /\ Len(sh.buf) = 12
  /\ SubSeq(sh.buf, 3, 5) = <<11, 4, 1>>
  /\ DOMAIN sh.result = {"companyId", "modelId", "mac"}
  /\ sh.result["modelId"] = 260

\* C18: both decoders are stateless: a call leaves its input unchanged, and
\* in any sequence or interleaving of calls the outcome of a call is the
\* outcome of decoding its input alone; the occurrence counters start empty
\* at each call, so that ids of an earlier call cause no :N suffix later.
C18_CallsAreIndependent ==
  /\ [](/\ bt.pc \in {"returned", "threw"} => Outcome(bt) = decodeBTHome(buf)
        /\ ShellyDone => ShellyOutcome(sh) = decodeShellyManufacturerData(input)
        /\ (BTReturned /\ buf = <<64, 1, 100>>) =>
             bt.readings = ("battery" :> Num(100, 0)))
  /\ [][/\ bt'.pc # "idle" => buf' = buf
        /\ sh'.pc # "idle" => (input' = input /\ md' = md)]_vars

\* a call on [0x40, 0x01, 0x64] has returned after an earlier call read the
\* battery id, while a second call of the other decoder is running
C18_Witness ==
  /\ BTReturned
  /\ buf = <<64, 1, 100>>
  /\ 1 \in seen
  /\ bt.readings = ("battery" :> Num(100, 0))
  /\ sh.pc = "loop"
  /\ sh.offset > 2

\* C19: every entry of BTHOME_SPEC whose width is length-prefixed (bytes is
\* null) has a parser, so that no buffer makes decodeBTHome raise the error
\* of an entry that is missing 'bytes'.
C19_LengthPrefixedHaveParsers ==
  /\ \A id \in DOMAIN BTHOME_SPEC :
       BTHOME_SPEC[id].bytes = null => BTHOME_SPEC[id].parser # "none"
  /\ bt.error # "missing bytes"
  /\ bt.pc = "threw" => bt.error = "RangeError"

\* a raw field and a battery field have been decoded
C19_Witness ==
  /\ BTReturned
  /\ bt.ids = <<84, 1>>
  /\ DOMAIN bt.readings = {"raw", "battery"}

\* C20: every scale factor of BTHOME_SPEC is 1, 0.1, 0.01 or 0.001, so that
\* the rounding precision log10(1 / scale) of the generic path is a whole
\* number for every entry the decoder reads.
C20_ScalesArePowersOfTen ==
  \A i \in DOMAIN bt.ids :
    bt.ids[i] \in DOMAIN BTHOME_SPEC =>
      LET e == BTHOME_SPEC[bt.ids[i]]
      IN  /\ e.fn = 1
          /\ e.fd \in {1, 10, 100, 1000}
          /\ Pow(10, FractionDigits(e.fn, e.fd)) * e.fn = e.fd

\* C23: after a known field whose id byte is at position p, the next id is
\* read at p + 1 + width for an entry of fixed width (with or without
\* parser) and at p + 2 + L for a length-prefixed entry with length byte L;
\* the byte read as an id is always the one at the current position.
C23_FieldFraming ==
  [][(bt.pc = "loop" /\ bt' # bt /\ bt'.pc # "returned") =>
       LET p == bt.offset
           id == At(buf, p)
       IN  /\ bt'.ids = Append(bt.ids, id)
           /\ (bt'.pc = "loop") =>
                LET e == BTHOME_SPEC[id]
                IN  bt'.offset = IF e.bytes # null THEN p + 1 + e.bytes
                                 ELSE p + 2 + At(buf, p + 1)]_vars

\* a text field of one byte and a battery field have been framed one after
\* the other
C23_Witness ==
  /\ BTReturned
  /\ buf = <<64, 83, 1, 1, 1, 3>>
  /\ bt.ids = <<83, 1>>
  /\ bt.offset = 6

\* the positions of the fields of id in ids, in order
Occurrences(ids, id) == SelectSeq([i \in DOMAIN ids |-> i], LAMBDA i : ids[i] = id)

\* no two different ids of the buffer have the same name
NoSharedName(ids) ==
  \A i, j \in DOMAIN ids :
    BTHOME_SPEC[ids[i]].name = BTHOME_SPEC[ids[j]].name => ids[i] = ids[j]

\* the keys the fields of id are expected under
KeysOf(ids, id) ==
  LET n == Count(ids, id)
      name == BTHOME_SPEC[id].name
  IN  IF n = 1 THEN {name} ELSE {name \o ":" \o ToString(k) : k \in 1..n}

\* C24: when n >= 2 fields of one id are in the buffer, and no field of
\* another id with the same name, readings has for that name exactly the
\* keys name:1 .. name:n, name:i with the value of the i-th occurrence, and
\* no key name; an id that occurs once keeps the key name.
C24_OccurrencesAreNumbered ==
  (KnownFieldsOnly /\ NoSharedName(bt.ids)) =>
    /\ DOMAIN bt.readings = UNION {KeysOf(bt.ids, bt.ids[i]) : i \in DOMAIN bt.ids}
    /\ \A i \in DOMAIN bt.ids :
         LET id == bt.ids[i]
             name == BTHOME_SPEC[id].name
             occ == Occurrences(bt.ids, id)
         IN  IF Len(occ) = 1
             THEN bt.readings[name] = FieldValue(i)
             ELSE /\ name \notin DOMAIN bt.readings
                  /\ \A k \in DOMAIN occ :
                       bt.readings[name \o ":" \o ToString(k)] = FieldValue(occ[k])

\* three battery fields of different values
C24_Witness ==
  /\ BTReturned
  /\ buf = <<64, 1, 1, 1, 3, 1, 46>>
  /\ DOMAIN bt.readings = {"battery:1", "battery:2", "battery:3"}
  /\ bt.readings["battery:2"] = Num(3, 0)

\* C25: no decoded field is lost: readings has as many keys as known fields
\* were decoded, every field's value is under its own key, and a later field
\* never takes the key of an earlier one, also when two ids share a name.
C25_NoFieldIsLost ==
  KnownFieldsOnly =>
    /\ Cardinality(DOMAIN bt.readings) = Len(bt.ids)
    /\ \A i \in DOMAIN bt.ids :
         \E k \in DOMAIN bt.readings : bt.readings[k] = FieldValue(i)

\* C26: unknown has at most one entry; it has exactly one if and only if an
\* id without entry in BTHOME_SPEC was read at an id position, and none when
\* every id read is known.
C26_AtMostOneUnknown ==
  /\ Len(bt.unknown) <= 1
  /\ bt.pc \in {"break", "returned"} =>
       (Len(bt.unknown) = 1 <=>
          \E i \in DOMAIN bt.ids : bt.ids[i] \notin DOMAIN BTHOME_SPEC)

\* two bytes that are no ids follow a battery field
C26_Witness ==
  /\ BTReturned
  /\ buf = <<64, 1, 1, 255, 255>>
  /\ Len(bt.unknown) = 1
  /\ bt.ids = <<1, 255>>

\* C27: for id 0xf1 the payload bytes are [rc, patch, minor, major] and the
\* reading firmwareVersion is "major.minor.patch.rc": [1, 2, 3, 4] gives
\* "4.3.2.1".  The 3-byte form orders its components differently: decoded as
\* a 0xf2 field, the first three bytes do not give the minor and patch
\* components they give in the 0xf1 field.
C27_FirmwareVersionOrder ==
  (bt.ids # << >> /\ bt.ids[1] = 241 /\ Len(buf) >= 6 /\ bt.pc # "threw") =>
    LET rc == buf[3]
        patch == buf[4]
        minor == buf[5]
        major == buf[6]
        short == decodeBTHome(<<buf[1], 242, buf[3], buf[4], buf[5]>>)
    IN  /\ Len(bt.ids) = 1 =>
             /\ bt.readings = ("firmwareVersion" :>
                  Str(ToString(major) \o "." \o ToString(minor) \o "."
                      \o ToString(patch) \o "." \o ToString(rc)))
             /\ bt.offset = 6
        /\ SubSeq(buf, 3, 6) = <<1, 2, 3, 4>> =>
             bt.readings["firmwareVersion"] = Str("4.3.2.1")
        /\ Cardinality({rc, patch, minor}) = 3 =>
             short.readings["firmwareVersionShort"] \notin
               {Str(ToString(x) \o "." \o ToString(minor) \o "." \o ToString(patch)) :
                  x \in {rc, patch, minor}}

\* the version 4.3.2.1 has been decoded before a battery field
C27_Witness ==
  /\ BTReturned
  /\ buf = <<64, 241, 1, 2, 3, 4, 1, 100>>
  /\ bt.readings["firmwareVersion"] = Str("4.3.2.1")
  /\ bt.readings["battery"] = Num(100, 0)

\* C21: both loops end on every input: each iteration increases the offset
\* by at least 1 or stops, so that decodeBTHome makes at most as many
\* iterations as the buffer has bytes, and both calls come to their end.
C21_LoopsTerminate ==
  /\ <>(bt.pc \in {"returned", "threw"})
  /\ <>(sh.pc \in {"null", "returned", "threw"})
  /\ [](Len(bt.ids) <= Len(buf))
  /\ [][/\ (bt.pc = "loop" /\ bt'.pc = "loop" /\ bt' # bt) => bt'.offset >= bt.offset + 1
        /\ (sh.pc = "loop" /\ sh'.pc = "loop" /\ sh' # sh) => sh'.offset >= sh.offset + 1]_vars

\* a text field whose length byte points far behind the end of the buffer
C21_Witness ==
  /\ BTReturned
  /\ bt.ids = <<83>>
  /\ Len(buf) = 5
  /\ bt.offset > Len(buf) + 200
  /\ sh.pc = "null"


\* no call of start() or stop() is under way
Quiet == \A i \in DOMAIN calls : ~Pending(calls[i])

C28_StopLeavesNotScanning ==
  /\ \A i \in DOMAIN calls :
        calls[i].op = "stop" /\ calls[i].pc = "resolved" => ~calls[i].scanning
  /\ Quiet /\ isScanning => noble = "loaded"

\* C29: handleDiscovery is registered as 'discover' listener at most once at
\* any time, and it is not registered when no call is under way and the
\* scanner is stopped.
C29_ListenerAtMostOnce ==
  /\ adapter.discover <= 1
  /\ Quiet /\ ~isScanning => adapter.discover = 0

\* the events of the given kind that the last advertisement has led to
EventsOf(kind) == {i \in DOMAIN history.events : history.events[i].kind = kind}

\* C30: the first advertisement with fcd2 service data of an address adds the
\* device and emits exactly one 'discovered'; a later one emits 'update' and
\* no 'discovered'; no 'update' comes before the 'discovered' of the address;
\* an advertisement without fcd2 service data of an address that is not in
\* the map emits nothing and adds no device.
C30_DiscoveredOnceThenUpdates ==
  LET adv == history.advertisement
      first == adv.address \notin history.heard
  IN  adv.kind = "advertisement" =>
        /\ \A i \in DOMAIN history.events : history.events[i].address = adv.address
        /\ adv.fcd2 /\ first => Cardinality(EventsOf("discovered")) = 1 /\ history.kept
        /\ adv.fcd2 /\ ~first => EventsOf("discovered") = {} /\ EventsOf("update") # {}
        /\ \A i \in EventsOf("update") :
              \/ adv.address \in history.discovered
              \/ \E j \in EventsOf("discovered") : j < i
        /\ ~adv.fcd2 /\ ~history.known => history.events = << >> /\ ~history.kept


\* C31: a step in which a call of start() is rejected (the import, the
\* adapter, the timer or startScanningAsync failed) leaves isScanning and the
\* registrations of handleDiscovery as they were, and isScanning becomes
\* true only in the step that registers the listener after the scan started.
C31_FailedStartChangesNothing ==
  [][/\ \A i \in DOMAIN calls :
          calls[i].op = "start" /\ Pending(calls[i]) /\ calls'[i].pc = "rejected" =>
            /\ isScanning' = isScanning
            /\ adapter'.discover = adapter.discover
            /\ calls'[i].note # ""
     /\ ~isScanning /\ isScanning' =>
          /\ adapter'.discover = adapter.discover + 1
          /\ \E i \in DOMAIN calls :
                /\ calls[i].op = "start" /\ calls[i].pc = "scan"
                /\ calls'[i].pc = "resolved"]_vars

C31_Witness ==
  /\ \E i \in DOMAIN calls :
        /\ calls[i].op = "start" /\ calls[i].pc = "rejected"
        /\ calls[i].note = "Failed to start BLE scanning"
  /\ ~isScanning
  /\ adapter.discover = 0
  /\ noble = "loaded"


\* C32: waitForPoweredOn is pending only while its listener and its timer
\* are set; once it has settled (fulfilled when the adapter is or becomes
\* poweredOn, rejected when it is or becomes unsupported or unauthorized or
\* when the timer fires) the listener is removed and the timer is not set,
\* and any other state change keeps it waiting.
C32_WaitSettlesOnceAndCleansUp ==
  \A i \in DOMAIN calls :
    /\ calls[i].pc = "wait" <=> calls[i].listener
    /\ calls[i].pc = "wait" <=> calls[i].timer
    /\ calls[i].pc = "wait" => adapter.state \notin {"poweredOn", "unsupported", "unauthorized"}


\* C36: an advertisement of a known device whose model id was set leaves the
\* device with a model id: no advertisement resets it to absent.
C36_ModelIdIsKept ==
  history.advertisement.kind = "advertisement" /\ history.modelBefore # {} =>
    history.modelAfter # {}


\* C33: when onAction('delete', mac) of a known mac has returned, the stored
\* list and the map of the scanner hold the devices known when it was called
\* but the one of mac.
C33_DeleteKeepsTheOthers ==
  platform.callback.name = "delete" /\ platform.callback.pc = "done" =>
    /\ DOMAIN platform.storage = platform.callback.begin \ {platform.callback.value}
    /\ DOMAIN bthomePeripherals = platform.callback.begin \ {platform.callback.value}

\* loadPeripherals of an onStart that follows an onShutdown has returned
LoadedAfterShutdown ==
  /\ platform.callback.name = "onStart" /\ platform.callback.pc = "scan"
  /\ platform.callback.previous

\* C34 (as stated): onShutdown stores the devices of the map as it is when
\* the callback begins, the map is cleared only later, and when the onStart
\* that follows has loaded the list the map holds exactly the devices it
\* held when onShutdown began.
C34_ShutdownStoresAndStartLoads ==
  /\ platform.callback.name = "onShutdown" =>
       platform.callback.begin \subseteq DOMAIN platform.storage
  /\ LoadedAfterShutdown =>
       DOMAIN bthomePeripherals = platform.callback.before

\* C34 (amended): onShutdown stores the list of the devices of the map as it
\* is when the callback begins, before stop() clears the map; when the
\* onStart that follows has loaded the list, the map holds exactly the
\* devices last stored: those known when onShutdown began and those
\* discovered while it awaited.
C34_ShutdownStoresThenStartLoadsTheStored ==
  [][/\ platform'.callback.name = "onShutdown" /\ platform.callback.pc # "saving"
          /\ platform'.callback.pc = "saving" =>
          /\ platform'.storage = bthomePeripherals
          /\ platform'.callback.begin = DOMAIN bthomePeripherals
          /\ bthomePeripherals' = bthomePeripherals
     /\ platform.callback.name = "onShutdown" /\ bthomePeripherals # EmptyObject
          /\ bthomePeripherals' = EmptyObject =>
          /\ platform.callback.pc = "stopping"
          /\ platform.callback.begin \subseteq DOMAIN platform.storage
     /\ LoadedAfterShutdown' =>
          /\ DOMAIN bthomePeripherals' = DOMAIN platform'.storage
          /\ platform'.callback.before \subseteq DOMAIN bthomePeripherals']_vars

\* an onShutdown called while scanning with a device known, and the onStart
\* after it has loaded the device back
C34_Witness ==
  /\ LoadedAfterShutdown
  /\ platform.callback.before # {}
  /\ DOMAIN bthomePeripherals = platform.callback.before
  /\ \E i \in DOMAIN calls : calls[i].op = "stop" /\ calls[i].note = "BLE scan stopped"

\* C35: the button reading of an advertisement triggers the switch event of
\* its device at most once.
C35_SwitchEventAtMostOnce ==
  \A address \in DOMAIN platform.switched : platform.switched[address] <= 1

====
